---- MODULE Spec2Model ----
(***************************************************************************)
(* The agent/recipe specification toolkit: the validation layer           *)
(* (scripts/validator.py: AgentValidator and RecipeValidator) and the      *)
(* generation layer (scripts/renderer.py, adapters/claude,                 *)
(* adapters/langgraph and the render command of scripts/cli.py).           *)
(*                                                                         *)
(* A parsed YAML/JSON value is a tagged record, a text is a sequence of    *)
(* string tokens whose concatenation is the text, and a call's outcome is  *)
(* either a returned (is_valid, errors) pair or an exception that reached  *)
(* the caller.                                                             *)
(***************************************************************************)
EXTENDS Integers, Sequences, FiniteSets, TLC

VARIABLES
    agent_validator,   \* the AgentValidator instance (its loaded schema)
    recipe_validator,  \* the RecipeValidator instance (its loaded schema)
    data,              \* the parsed specification handed to validate_data
    source,            \* what is found at yaml_path
    ret,               \* the outcome of the last validator call
    agents_dir,        \* the specification files under AGENTS_DIR, in scan order
    fs,                \* the output file system: files written, directories made
    calls,             \* how many generation calls were made
    gen                \* the last generation call and its outcome

validator_vars == <<agent_validator, recipe_validator, data, source, ret>>
render_vars == <<agents_dir, fs, calls, gen>>
vars == <<agent_validator, recipe_validator, data, source, ret,
          agents_dir, fs, calls, gen>>

(***************************************************************************)
(* Bounds of the model.                                                    *)
(***************************************************************************)
\* longest stage graph made of well-formed stages
MaxStages == 4
\* longest stage graph made of arbitrary parsed items
MaxRawStages == 2
\* most specification files under AGENTS_DIR
MaxSpecs == 2
\* most generation calls made on one output file system
MaxCalls == 2

(***************************************************************************)
(* Parsed values (what yaml.safe_load returns).                            *)
(***************************************************************************)
NullV == [t |-> "null"]
StrV(s) == [t |-> "str", s |-> s]
IntV(n) == [t |-> "int", n |-> n]
ListV(xs) == [t |-> "list", items |-> xs]
MapV(m) == [t |-> "map", m |-> m]
EmptyMap == MapV(<<>>)

IsMap(v) == v.t = "map"

\* str(i) for the list indices and stage positions of the model
Digits == <<"0", "1", "2", "3", "4", "5", "6", "7", "8", "9">>
IntToStr(i) == Digits[i + 1]

\* type(v).__name__
TypeName(v) ==
    CASE v.t = "null" -> "NoneType"
      [] v.t = "str"  -> "str"
      [] v.t = "int"  -> "int"
      [] v.t = "list" -> "list"
      [] v.t = "map"  -> "dict"

\* str(v) as an f-string or str() renders it
ToText(v) ==
    CASE v.t = "null" -> "None"
      [] v.t = "str"  -> v.s
      [] v.t = "int"  -> IntToStr(v.n)
      [] v.t = "list" -> IF v.items = <<>> THEN "[]" ELSE "[...]"
      [] v.t = "map"  -> IF DOMAIN v.m = {} THEN "{}" ELSE "{...}"

\* repr(v) as jsonschema's messages render the instance (%r)
Repr(v) ==
    CASE v.t = "str" -> <<"'", v.s, "'">>
      [] OTHER       -> <<ToText(v)>>

\* sep.join(parts) for a sequence of token sequences
RECURSIVE Join(_, _)
Join(sep, parts) ==
    IF parts = <<>> THEN <<>>
    ELSE IF Len(parts) = 1 THEN parts[1]
    ELSE parts[1] \o <<sep>> \o Join(sep, Tail(parts))

(***************************************************************************)
(* The schema documents and Draft202012Validator.iter_errors.              *)
(* A schema is a record of the keywords it may carry, in the order the     *)
(* schema document lists them: type, required, properties, items, enum,    *)
(* pattern.  "any" / <<>> / "" mean the keyword is absent.                 *)
(***************************************************************************)
Schema(type, required, properties, items, enum, pattern) ==
    [type |-> type, required |-> required, properties |-> properties,
     items |-> items, enum |-> enum, pattern |-> pattern]

StringSchema == Schema("string", <<>>, <<>>, <<>>, <<>>, "")
Prop(name, schema) == [name |-> name, schema |-> schema]

IdPattern == "^[a-z][a-z0-9-]*$"
\* the strings of the model that re.search(IdPattern, s) accepts
KebabCase == {"test-agent", "test-recipe"}
PatternMatches(pattern, s) == pattern = IdPattern => s \in KebabCase

Providers == <<StrV("anthropic"), StrV("openai"), StrV("google")>>

AgentSchema ==
    Schema("object",
           <<"id", "name", "summary", "role", "model", "ownership", "version">>,
           << Prop("id", Schema("string", <<>>, <<>>, <<>>, <<>>, IdPattern)),
              Prop("name", StringSchema),
              Prop("model",
                   Schema("object", <<"provider">>,
                          << Prop("provider",
                                  Schema("string", <<>>, <<>>, <<>>, Providers, "")) >>,
                          <<>>, <<>>, "")) >>,
           <<>>, <<>>, "")

StageSchema ==
    Schema("object", <<"stage">>, << Prop("stage", StringSchema) >>, <<>>, <<>>, "")

RecipeSchema ==
    Schema("object",
           <<"id", "name", "summary", "graph", "version">>,
           << Prop("id", Schema("string", <<>>, <<>>, <<>>, <<>>, IdPattern)),
              Prop("graph", Schema("array", <<>>, <<>>, <<StageSchema>>, <<>>, "")) >>,
           <<>>, <<>>, "")

\* the JSON type of a parsed value
JsonType(v) ==
    CASE v.t = "null" -> "null"
      [] v.t = "str"  -> "string"
      [] v.t = "int"  -> "integer"
      [] v.t = "list" -> "array"
      [] v.t = "map"  -> "object"

Key(name) == [k |-> "key", name |-> name]
Idx(i) == [k |-> "idx", i |-> i]

\* a jsonschema ValidationError: where, which keyword, and its message
ValidationError(path, keyword, message) ==
    [absolute_path |-> path, validator |-> keyword, message |-> message]

RECURSIVE RequiredErrors(_, _, _)
RequiredErrors(required, inst, path) ==
    IF required = <<>> \/ ~IsMap(inst) THEN <<>>
    ELSE (IF required[1] \in DOMAIN inst.m THEN <<>>
          ELSE << ValidationError(path, "required",
                     <<"'", required[1], "'", " is a ", "required", " property">>) >>)
         \o RequiredErrors(Tail(required), inst, path)

RECURSIVE IterErrors(_, _, _)
RECURSIVE PropertiesErrors(_, _, _)
RECURSIVE ItemsErrors(_, _, _, _)

PropertiesErrors(properties, inst, path) ==
    IF properties = <<>> \/ ~IsMap(inst) THEN <<>>
    ELSE (IF properties[1].name \in DOMAIN inst.m
          THEN IterErrors(properties[1].schema, inst.m[properties[1].name],
                          Append(path, Key(properties[1].name)))
          ELSE <<>>)
         \o PropertiesErrors(Tail(properties), inst, path)

ItemsErrors(schema, inst, path, i) ==
    IF inst.t # "list" \/ i > Len(inst.items) THEN <<>>
    ELSE IterErrors(schema, inst.items[i], Append(path, Idx(i - 1)))
         \o ItemsErrors(schema, inst, path, i + 1)

\* the errors iter_errors yields for inst, in the order it yields them
IterErrors(schema, inst, path) ==
    (IF schema.type # "any" /\ JsonType(inst) # schema.type
     THEN << ValidationError(path, "type",
                Repr(inst) \o <<" is not of type ", "'", schema.type, "'">>) >>
     ELSE <<>>)
    \o RequiredErrors(schema.required, inst, path)
    \o PropertiesErrors(schema.properties, inst, path)
    \o (IF schema.items = <<>> THEN <<>>
        ELSE ItemsErrors(schema.items[1], inst, path, 1))
    \o (IF schema.enum # <<>> /\ ~(\E i \in DOMAIN schema.enum : schema.enum[i] = inst)
        THEN << ValidationError(path, "enum",
                   Repr(inst) \o <<" is not one of ", "[...]">>) >>
        ELSE <<>>)
    \o (IF schema.pattern # "" /\ inst.t = "str"
           /\ ~PatternMatches(schema.pattern, inst.s)
        THEN << ValidationError(path, "pattern",
                   Repr(inst) \o <<" does not match ", "'", schema.pattern, "'">>) >>
        ELSE <<>>)

(***************************************************************************)
(* Outcomes of Python expressions: a value, or an exception being raised.  *)
(***************************************************************************)
NoExc == [type |-> "", msg |-> <<>>]
Ok(v) == [raised |-> FALSE, exc |-> NoExc, value |-> v]
Raise(type, msg) == [raised |-> TRUE, exc |-> [type |-> type, msg |-> msg], value |-> <<>>]

NoAttribute(v, attr) ==
    Raise("AttributeError",
          <<"'", TypeName(v), "'", " object has no attribute ", "'", attr, "'">>)

\* `needle in hay` for two strings: no string of the model properly contains
\* another one, so containment is equality
StrContains(hay, needle) == hay = needle

\* the expression `key in v`
PyIn(key, v) ==
    CASE v.t = "map"  -> Ok(key \in DOMAIN v.m)
      [] v.t = "str"  -> Ok(StrContains(v.s, key))
      [] v.t = "list" -> Ok(\E i \in DOMAIN v.items : v.items[i] = StrV(key))
      [] v.t \in {"null", "int"} ->
             Raise("TypeError",
                   <<"argument of type ", "'", TypeName(v), "'", " is not iterable">>)

\* the expression v.get(key, default)
PyGet(v, key, default) ==
    IF v.t = "map"
    THEN Ok(IF key \in DOMAIN v.m THEN v.m[key] ELSE default)
    ELSE NoAttribute(v, "get")

\* the keys of a mapping in the order iteration yields them
KeysInOrder(m) == CHOOSE ks \in [1..Cardinality(DOMAIN m) -> DOMAIN m] :
                     \A k \in DOMAIN m : \E i \in DOMAIN ks : ks[i] = k

\* the items `for x in v` yields
PyIter(v) ==
    CASE v.t = "list" -> Ok(v.items)
      [] v.t = "map"  -> Ok([i \in 1..Cardinality(DOMAIN v.m) |-> StrV(KeysInOrder(v.m)[i])])
      [] v.t \in {"null", "int"} ->
             Raise("TypeError", <<"'", TypeName(v), "'", " object is not iterable">>)

Hashable(v) == v.t \in {"null", "str", "int"}

\* every order in which iterating a set can yield its elements
Orders(S) == {o \in [1..Cardinality(S) -> S] :
                \A x \in S : \E i \in DOMAIN o : o[i] = x}

(***************************************************************************)
(* AgentValidator                                                          *)
(***************************************************************************)
PathStr(p) == IF p.k = "key" THEN p.name ELSE IntToStr(p.i)

AgentValidator_format_validation_error(error) ==
    IF error.absolute_path # <<>>
    THEN <<"Field '">>
         \o Join(".", [i \in DOMAIN error.absolute_path |->
                          <<PathStr(error.absolute_path[i])>>])
         \o <<"': ">> \o error.message
    ELSE error.message

\* what a validator call hands back to its caller
Returned(is_valid, errors) ==
    [raised |-> FALSE, exc |-> NoExc, is_valid |-> is_valid, errors |-> errors]
Propagated(exc) ==
    [raised |-> TRUE, exc |-> exc, is_valid |-> FALSE, errors |-> <<>>]

\* what open() and yaml.safe_load find at yaml_path
Missing(path) == [path |-> path, kind |-> "missing", parsed |-> NullV]
Unreadable(path) == [path |-> path, kind |-> "unreadable", parsed |-> NullV]
Malformed(path) == [path |-> path, kind |-> "malformed", parsed |-> NullV]
Holds(path, value) == [path |-> path, kind |-> "yaml", parsed |-> value]

\* the body of the try block of validate_file up to safe_load: the exception
\* the handlers turn into a verdict, or the parsed document
\* the handler returning False with nothing in the list
FileNotFoundSilent(src) == Returned(FALSE, <<>>)
FileNotFound(src) == Returned(FALSE, << <<"File not found: ", src.path>> >>)
YamlError(src) == Returned(FALSE, << <<"YAML parsing error: ", "<mark>">> >>)
OtherError(exc) == Returned(FALSE, << <<"Validation error: ">> \o exc.msg >>)
PermissionDenied(src) ==
    [type |-> "PermissionError", msg |-> <<"[Errno 13] Permission denied: ", src.path>>]

AgentValidator_validate_data(self, d) ==
    LET found == IterErrors(self.schema, d, <<>>)
        errors == [i \in DOMAIN found |-> AgentValidator_format_validation_error(found[i])]
    IN  Returned(Len(errors) = 0, errors)

AgentValidator_validate_file(self, src) ==
    CASE src.kind = "missing"    -> FileNotFound(src)
      [] src.kind = "unreadable" -> OtherError(PermissionDenied(src))
      [] src.kind = "malformed"  -> YamlError(src)
      [] src.kind = "yaml"       ->
            LET found == IterErrors(self.schema, src.parsed, <<>>)
                errors == [i \in DOMAIN found |->
                             AgentValidator_format_validation_error(found[i])]
            IN  Returned(Len(errors) = 0, errors)

(***************************************************************************)
(* RecipeValidator                                                         *)
(***************************************************************************)
\* the formatter without its test for a violation at the document root
FormatAlwaysWithPath(error) ==
    <<"Field '">>
    \o Join(".", [i \in DOMAIN error.absolute_path |->
                     <<PathStr(error.absolute_path[i])>>])
    \o <<"': ">> \o error.message

RecipeValidator_format_validation_error(error) ==
    IF error.absolute_path # <<>>
    THEN <<"Field '">>
         \o Join(".", [i \in DOMAIN error.absolute_path |->
                          <<PathStr(error.absolute_path[i])>>])
         \o <<"': ">> \o error.message
    ELSE error.message

\* [stage.get('stage') for stage in graph if 'stage' in stage]
RECURSIVE StageNames(_)
StageNames(items) ==
    IF items = <<>> THEN Ok(<<>>)
    ELSE LET stage == Head(items)
             cond == PyIn("stage", stage)
         IN  IF cond.raised THEN cond
             ELSE LET name == IF cond.value THEN PyGet(stage, "stage", NullV)
                              ELSE Ok(NullV)
                  IN  IF name.raised THEN name
                      ELSE LET rest == StageNames(Tail(items))
                           IN  IF rest.raised THEN rest
                               ELSE Ok((IF cond.value THEN <<name.value>> ELSE <<>>)
                                       \o rest.value)

Count(names, name) == Cardinality({i \in DOMAIN names : names[i] = name})

\* the comparison written as `> 2`
RepeatedMoreThanTwice(names) == SelectSeq(names, LAMBDA name : Count(names, name) > 2)

\* [name for name in stage_names if stage_names.count(name) > 1]
Repeated(names) == SelectSeq(names, LAMBDA name : Count(names, name) > 1)

\* set(names): hashing the first unhashable element raises
PySet(names) ==
    IF \E i \in DOMAIN names : ~Hashable(names[i])
    THEN LET i == CHOOSE j \in DOMAIN names :
                     /\ ~Hashable(names[j])
                     /\ \A k \in 1..(j - 1) : Hashable(names[k])
         IN  Raise("TypeError", <<"unhashable type: ", "'", TypeName(names[i]), "'">>)
    ELSE Ok({names[i] : i \in DOMAIN names})

\* ', '.join(order): the first element that is not a str raises
PyJoin(sep, order) ==
    IF \E i \in DOMAIN order : order[i].t # "str"
    THEN LET i == CHOOSE j \in DOMAIN order :
                     /\ order[j].t # "str"
                     /\ \A k \in 1..(j - 1) : order[k].t = "str"
         IN  Raise("TypeError",
                   <<"sequence item ", IntToStr(i - 1), ": expected str instance, ",
                     TypeName(order[i]), " found">>)
    ELSE Ok(Join(sep, [i \in DOMAIN order |-> <<order[i].s>>]))

DuplicateError(joined) == <<"Duplicate", " stage names found: ">> \o joined
MustHaveEither(stage_name) ==
    <<"Stage '", ToText(stage_name), "' ", "must have either",
      " 'parallel' or 'sequence' field">>
CannotHaveBoth(stage_name) ==
    <<"Stage '", ToText(stage_name), "' ", "cannot have both",
      " 'parallel' and 'sequence' fields">>

\* the placeholder counting stages from one
PlaceholderFromOne(i) == StrV("stage_" \o IntToStr(i + 1))

\* f'stage_{i}'
Placeholder(i) == StrV("stage_" \o IntToStr(i))

\* the body of `for i, stage in enumerate(graph)` from position i (1-based) on
RECURSIVE StageChecks(_, _)
StageChecks(items, i) ==
    IF i > Len(items) THEN Ok(<<>>)
    ELSE LET stage == items[i]
             has_parallel == PyIn("parallel", stage)
             has_sequence == PyIn("sequence", stage)
             stage_name == PyGet(stage, "stage", Placeholder(i - 1))
         IN  IF has_parallel.raised THEN has_parallel
             ELSE IF has_sequence.raised THEN has_sequence
             ELSE IF ~has_parallel.value /\ ~has_sequence.value
             THEN IF stage_name.raised THEN stage_name
                  ELSE LET rest == StageChecks(items, i + 1)
                       IN  IF rest.raised THEN rest
                           ELSE Ok(<<MustHaveEither(stage_name.value)>> \o rest.value)
             ELSE IF has_parallel.value /\ has_sequence.value
             THEN IF stage_name.raised THEN stage_name
                  ELSE LET rest == StageChecks(items, i + 1)
                       IN  IF rest.raised THEN rest
                           ELSE Ok(<<CannotHaveBoth(stage_name.value)>> \o rest.value)
             ELSE StageChecks(items, i + 1)

\* the semantic checks returning as soon as the duplicate-name error is found
SemanticsStopAtDuplicate(d) ==
    LET graph == PyGet(d, "graph", ListV(<<>>))
    IN  IF graph.raised THEN {graph}
        ELSE LET items == PyIter(graph.value)
        IN  IF items.raised THEN {items}
        ELSE LET stage_names == StageNames(items.value)
        IN  IF stage_names.raised THEN {stage_names}
        ELSE LET duplicate_stages == PySet(Repeated(stage_names.value))
        IN  IF duplicate_stages.raised THEN {duplicate_stages}
        ELSE { LET joined == PyJoin(", ", order)
                   checks == StageChecks(items.value, 1)
               IN  IF duplicate_stages.value # {} /\ joined.raised THEN joined
                   ELSE IF duplicate_stages.value # {}
                   THEN Ok(<<DuplicateError(joined.value)>>)
                   ELSE checks
               : order \in Orders(duplicate_stages.value) }

\* _validate_recipe_semantics(data): the outcomes it can have, one for each
\* order in which the set of duplicated names can be iterated
RecipeValidator_validate_recipe_semantics(d) ==
    LET graph == PyGet(d, "graph", ListV(<<>>))
    IN  IF graph.raised THEN {graph}
        ELSE LET items == PyIter(graph.value)
        IN  IF items.raised THEN {items}
        ELSE LET stage_names == StageNames(items.value)
        IN  IF stage_names.raised THEN {stage_names}
        ELSE LET duplicate_stages == PySet(Repeated(stage_names.value))
        IN  IF duplicate_stages.raised THEN {duplicate_stages}
        ELSE { LET joined == PyJoin(", ", order)
                   checks == StageChecks(items.value, 1)
               IN  IF duplicate_stages.value # {} /\ joined.raised THEN joined
                   ELSE IF checks.raised THEN checks
                   ELSE Ok((IF duplicate_stages.value # {}
                            THEN <<DuplicateError(joined.value)>> ELSE <<>>)
                           \o checks.value)
               : order \in Orders(duplicate_stages.value) }

\* validate_file of RecipeValidator: the verdicts it can return
RecipeValidator_validate_file(self, src) ==
    CASE src.kind = "missing"    -> {FileNotFound(src)}
      [] src.kind = "unreadable" -> {OtherError(PermissionDenied(src))}
      [] src.kind = "malformed"  -> {YamlError(src)}
      [] src.kind = "yaml"       ->
            LET found == IterErrors(self.schema, src.parsed, <<>>)
                errors == [i \in DOMAIN found |->
                             RecipeValidator_format_validation_error(found[i])]
            IN  { IF semantic_errors.raised THEN OtherError(semantic_errors.exc)
                  ELSE Returned(Len(errors \o semantic_errors.value) = 0,
                                errors \o semantic_errors.value)
                  : semantic_errors \in RecipeValidator_validate_recipe_semantics(src.parsed) }

\* RecipeValidator defines no validate_data: the attribute lookup raises
RecipeValidator_validate_data(self, d) ==
    Propagated([type |-> "AttributeError",
                msg |-> <<"'", "RecipeValidator", "'", " object has no attribute ",
                          "'", "validate_data", "'">>])

(***************************************************************************)
(* The documents the validators are given.                                 *)
(***************************************************************************)
\* the mapping holding the (key, value) pairs of a set
MapOf(pairs) ==
    MapV([k \in {p[1] : p \in pairs} |-> (CHOOSE p \in pairs : p[1] = k)[2]])

\* all sequences over S of length at most n
SeqsUpTo(S, n) == UNION {[1..k -> S] : k \in 0..n}

Steps == ListV(<< MapV([agent |-> StrV("test-agent")]) >>)

ModeFields ==
    { {}, {<<"sequence", Steps>>}, {<<"parallel", Steps>>},
      {<<"sequence", Steps>>, <<"parallel", Steps>>} }

\* the stages of the long graphs: named or unnamed, with or without a mode
StageNameFields == { {}, {<<"stage", StrV("build")>>}, {<<"stage", StrV("test")>>} }
Stages == {MapOf(n \cup m) : n \in StageNameFields, m \in { {}, {<<"sequence", Steps>>} }}

\* the items of the short graphs: stages with every combination of the mode
\* fields, stages whose name is a number or a list, items that are no mapping
OddNameFields == { {<<"stage", IntV(7)>>}, {<<"stage", ListV(<<>>)>>} }
RawItems == {MapOf(n \cup m) : n \in {{}, {<<"stage", StrV("build")>>}}, m \in ModeFields}
            \cup {MapOf(n \cup m) : n \in OddNameFields, m \in { {}, {<<"sequence", Steps>>} }}
            \cup {StrV("x"), NullV}

RecipeHeader == {<<"id", StrV("test-recipe")>>, <<"name", StrV("Test Recipe")>>,
                 <<"summary", StrV("A test recipe")>>, <<"version", StrV("1.0.0")>>}
RecipeHeaders == {RecipeHeader, {}}

\* recipes whose graph is a list of stages
GraphRecipes ==
    {MapOf(RecipeHeader \cup {<<"graph", ListV(g)>>}) : g \in SeqsUpTo(Stages, MaxStages)}

\* recipes whose graph is absent, no list, or a list of arbitrary items
RawGraphFields ==
    { {}, {<<"graph", NullV>>}, {<<"graph", MapV([build |-> Steps])>>} }
    \cup { {<<"graph", ListV(g)>>} : g \in SeqsUpTo(RawItems, MaxRawStages) }
RawRecipes == {MapOf(h \cup g) : h \in RecipeHeaders, g \in RawGraphFields}

ValidModel == MapV([provider |-> StrV("anthropic"), family |-> StrV("claude"),
                    tier |-> StrV("sonnet")])
AgentIdFields == { {}, {<<"id", StrV("test-agent")>>},
                   {<<"id", StrV("Invalid_ID_Format!")>>} }
AgentNameFields == { {}, {<<"name", StrV("Test Agent")>>} }
AgentRestFields ==
    { {}, {<<"summary", StrV("A test agent")>>, <<"role", StrV("You are a test agent.")>>,
           <<"ownership", MapV([owner |-> StrV("test@example.com")])>>,
           <<"version", StrV("1.0.0")>>} }
AgentModelFields ==
    { {}, {<<"model", ValidModel>>},
      {<<"model", MapV([provider |-> StrV("invalid_provider")])>>},
      {<<"model", EmptyMap>>}, {<<"model", StrV("sonnet")>>} }
Agents == {MapOf(i \cup n \cup r \cup m) :
              i \in AgentIdFields, n \in AgentNameFields,
              r \in AgentRestFields, m \in AgentModelFields}

\* documents that are no mapping: the empty document, a scalar, a list
NonMappings == {NullV, StrV("x"), IntV(7), ListV(<<>>)}

Documents == Agents \cup GraphRecipes \cup RawRecipes \cup NonMappings

YamlPath == "spec.yaml"

(***************************************************************************)
(* The state machine: validators are constructed, then called.             *)
(***************************************************************************)
NoCall == [op |-> "none", out |-> Returned(TRUE, <<>>)]

\* the generation layer before any call: nothing written, nothing made
NoRender == [op |-> "none", arg |-> <<>>, again |-> FALSE,
             raised |-> FALSE, exc |-> NoExc, value |-> <<>>]
Call(op, out) == [op |-> op, out |-> out]

Init ==
    /\ agent_validator = [schema_path |-> "schemas/agent-spec-v1.json",
                          schema |-> AgentSchema]
    /\ recipe_validator = [schema_path |-> "schemas/recipe-spec-v1.json",
                           schema |-> RecipeSchema]
    /\ data \in Documents
    /\ \/ source = Holds(YamlPath, data)
       \/ /\ data \in NonMappings
          /\ source \in {Missing(YamlPath), Unreadable(YamlPath), Malformed(YamlPath)}
    /\ ret = NoCall
    /\ agents_dir = <<>>
    /\ fs = [files |-> <<>>, dirs |-> {}]
    /\ calls = 0
    /\ gen = NoRender

AgentValidateData ==
    /\ ret' = Call("AgentValidator.validate_data",
                   AgentValidator_validate_data(agent_validator, data))
    /\ UNCHANGED <<agent_validator, recipe_validator, data, source>>
    /\ UNCHANGED render_vars

AgentValidateFile ==
    /\ ret' = Call("AgentValidator.validate_file",
                   AgentValidator_validate_file(agent_validator, source))
    /\ UNCHANGED <<agent_validator, recipe_validator, data, source>>
    /\ UNCHANGED render_vars

RecipeValidateData ==
    /\ ret' = Call("RecipeValidator.validate_data",
                   RecipeValidator_validate_data(recipe_validator, data))
    /\ UNCHANGED <<agent_validator, recipe_validator, data, source>>
    /\ UNCHANGED render_vars

\* validate_file filling in the graph the document lacks
RecipeValidateFileSetdefault ==
    /\ \E out \in RecipeValidator_validate_file(recipe_validator, source) :
          ret' = Call("RecipeValidator.validate_file", out)
    /\ source' = [source EXCEPT !.parsed =
                     IF IsMap(@) /\ "graph" \notin DOMAIN @.m
                     THEN MapV(@.m @@ [graph |-> ListV(<<>>)]) ELSE @]
    /\ UNCHANGED <<agent_validator, recipe_validator, data>>
    /\ UNCHANGED render_vars

RecipeValidateFile ==
    /\ \E out \in RecipeValidator_validate_file(recipe_validator, source) :
          ret' = Call("RecipeValidator.validate_file", out)
    /\ UNCHANGED <<agent_validator, recipe_validator, data, source>>
    /\ UNCHANGED render_vars

Next ==
    \/ AgentValidateData
    \/ AgentValidateFile
    \/ RecipeValidateData
    \/ RecipeValidateFile

Spec == Init /\ [][Next]_vars

(***************************************************************************)
(* The generation layer.  Strings are strings, a file's content is the     *)
(* sequence of its lines, a path is the string str(path) gives.            *)
(***************************************************************************)
\* s.replace(old, new, 1): only the first old is replaced
RECURSIVE ReplaceFirst(_, _, _)
ReplaceFirst(s, old, new) ==
    IF s = "" THEN ""
    ELSE IF Head(s) = old THEN new \o Tail(s)
    ELSE Head(s) \o ReplaceFirst(Tail(s), old, new)

\* s.replace(old, new) for a one-character old
RECURSIVE Replace(_, _, _)
Replace(s, old, new) ==
    IF s = "" THEN ""
    ELSE (IF Head(s) = old THEN new ELSE Head(s)) \o Replace(Tail(s), old, new)

\* Path(path).name and Path(path).stem: the last component, and the last
\* component without its last suffix
Name(path) ==
    LET at == {i \in 1..Len(path) : SubSeq(path, i, i) = "/"}
    IN  SubSeq(path, (IF at = {} THEN 0 ELSE CHOOSE i \in at : \A j \in at : j <= i) + 1,
               Len(path))
Stem(path) ==
    LET at == {i \in 1..Len(Name(path)) : SubSeq(Name(path), i, i) = "."}
        dot == IF at = {} THEN 0 ELSE CHOOSE i \in at : \A j \in at : j <= i
    IN  IF dot <= 1 THEN Name(path) ELSE SubSeq(Name(path), 1, dot - 1)

\* output_dir / name
Under(dir, name) == dir \o "/" \o name

\* what a generation call leaves: the file system, and the value returned
\* or the exception raised
Done(after, value) == [raised |-> FALSE, exc |-> NoExc, fs |-> after, value |-> value]
Failed(after, exc) == [raised |-> TRUE, exc |-> exc, fs |-> after, value |-> <<>>]

\* open(path, 'a') and f.write(content): the content is added to the file
AppendFile(on, dir, name, content) ==
    IF dir \notin on.dirs
    THEN Failed(on, [type |-> "FileNotFoundError",
                     msg |-> <<"[Errno 2] No such file or directory: ", Under(dir, name)>>])
    ELSE Done([on EXCEPT !.files =
                  [p \in DOMAIN on.files \cup {Under(dir, name)} |->
                      IF p # Under(dir, name) THEN on.files[p]
                      ELSE IF p \in DOMAIN on.files THEN on.files[p] \o content
                      ELSE content]],
              Under(dir, name))

\* with open(dir / name, 'w') as f: f.write(content)
WriteFile(on, dir, name, content) ==
    IF dir \notin on.dirs
    THEN Failed(on, [type |-> "FileNotFoundError",
                     msg |-> <<"[Errno 2] No such file or directory: ", Under(dir, name)>>])
    ELSE Done([on EXCEPT !.files =
                  [p \in DOMAIN on.files \cup {Under(dir, name)} |->
                      IF p = Under(dir, name) THEN content ELSE on.files[p]]],
              Under(dir, name))

\* with open(spec_path) as f: yaml.safe_load(f)
LoadSpec(spec_path) ==
    CASE spec_path.kind = "missing" ->
            Raise("FileNotFoundError",
                  <<"[Errno 2] No such file or directory: ", spec_path.path>>)
      [] spec_path.kind = "unreadable" ->
            Raise("PermissionError", PermissionDenied(spec_path).msg)
      [] spec_path.kind = "malformed" -> Raise("YAMLError", <<"<mark>">>)
      [] spec_path.kind = "yaml" -> Ok(spec_path.parsed)

(***************************************************************************)
(* The templates: what {{ spec.<field> }} and the conditional sections of  *)
(* the two template documents produce.                                     *)
(***************************************************************************)
\* {{ v.key }}: the text of the field, nothing when it is undefined
Shown(v, key) == IF IsMap(v) /\ key \in DOMAIN v.m THEN ToText(v.m[key]) ELSE ""
\* v.key, the empty mapping when it is undefined
Sub(v, key) == IF IsMap(v) /\ key \in DOMAIN v.m THEN v.m[key] ELSE EmptyMap
\* the tool descriptors of a specification
ToolsOf(spec) ==
    IF IsMap(spec) /\ "tools" \in DOMAIN spec.m /\ spec.m["tools"].t = "list"
    THEN spec.m["tools"].items ELSE <<>>

claude_subagent_md(spec) ==
    LET \* the join filter
        RECURSIVE JoinText(_, _)
        JoinText(sep, parts) ==
            IF parts = <<>> THEN ""
            ELSE IF Len(parts) = 1 THEN parts[1]
            ELSE parts[1] \o sep \o JoinText(sep, Tail(parts))
    IN
    << "---",
       "name: " \o Shown(spec, "id"),
       "description: " \o Shown(spec, "summary"),
       "model: " \o Shown(Sub(spec, "model"), "tier"),
       "tools: " \o JoinText(", ", [i \in DOMAIN ToolsOf(spec) |-> Shown(ToolsOf(spec)[i], "id")]),
       "---",
       Shown(spec, "role") >>
    \o (IF Shown(Sub(spec, "constraints"), "pii_policy") # ""
        THEN <<"## Privacy Policy">> ELSE <<>>)
    \o (IF ToolsOf(spec) # <<>> THEN <<"## Available Tools">> ELSE <<>>)
    \o (IF Shown(Sub(spec, "evaluation"), "acceptance") # ""
        THEN <<"## Success Criteria">> ELSE <<>>)
    \o << "Generated from " \o Shown(spec, "id") \o ".yaml v" \o Shown(spec, "version") >>

langgraph_agent_py(spec) ==
    << "from langgraph.prebuilt import create_react_agent",
       "from langchain_" \o Shown(Sub(spec, "model"), "provider") \o " import ChatModel",
       "SYSTEM_PROMPT = '" \o Shown(spec, "role") \o "'",
       "def create_" \o Replace(Shown(spec, "id"), "-", "_") \o "_agent():" >>

(***************************************************************************)
(* AgentRenderer                                                           *)
(***************************************************************************)
\* output_dir.mkdir(parents=True, exist_ok=True), then the file is written
WriteOutput(on, output_dir, name, content) ==
    WriteFile([on EXCEPT !.dirs = @ \cup {output_dir}], output_dir, name, content)

\* the directory of the repository that holds the two template documents
TEMPLATES_DIR == "templates"

\* self.env.get_template(name).render(spec=spec): the loader finds the
\* template in the directory the renderer was constructed with, or nowhere
RenderTemplate(self, name, content) ==
    IF self.templates_dir = TEMPLATES_DIR THEN Ok(content)
    ELSE Raise("TemplateNotFound", <<name>>)

\* v.replace(old, new): only a str has the method
PyReplace(v, old, new) ==
    IF v.t = "str" THEN Ok(Replace(v.s, old, new)) ELSE NoAttribute(v, "replace")

AgentRenderer_render_claude_agent(self, on, spec_path, output_dir) ==
    LET spec == LoadSpec(spec_path)
    IN  IF spec.raised THEN Failed(on, spec.exc)
        ELSE LET content == RenderTemplate(self, "claude_subagent.md.jinja",
                                           claude_subagent_md(spec.value))
                 agent_id == PyGet(spec.value, "id", StrV(Stem(spec_path.path)))
             IN  IF content.raised THEN Failed(on, content.exc)
                 ELSE IF agent_id.raised THEN Failed(on, agent_id.exc)
                 ELSE WriteOutput(on, output_dir, ToText(agent_id.value) \o ".md",
                                  content.value)

AgentRenderer_render_langgraph_agent(self, on, spec_path, output_dir) ==
    LET spec == LoadSpec(spec_path)
    IN  IF spec.raised THEN Failed(on, spec.exc)
        ELSE LET content == RenderTemplate(self, "langgraph_agent.py.jinja",
                                           langgraph_agent_py(spec.value))
                 agent_id == PyGet(spec.value, "id", StrV(Stem(spec_path.path)))
             IN  IF content.raised THEN Failed(on, content.exc)
                 ELSE IF agent_id.raised THEN Failed(on, agent_id.exc)
                 ELSE LET class_name == PyReplace(agent_id.value, "-", "_")
                      IN  IF class_name.raised THEN Failed(on, class_name.exc)
                          ELSE WriteOutput(on, output_dir,
                                           class_name.value \o "_agent.py", content.value)

\* the table with gpt-4 mapped to another name
tier_mapping_turbo ==
    ("gpt-3.5" :> "gpt-3.5-turbo") @@ ("gpt-4" :> "gpt-4-turbo") @@ ("gpt-4o" :> "gpt-4o")

tier_mapping ==
    ("gpt-3.5" :> "gpt-3.5-turbo") @@ ("gpt-4" :> "gpt-4") @@ ("gpt-4o" :> "gpt-4o")

AgentRenderer_map_model_to_openai(model_config) ==
    LET provider == PyGet(model_config, "provider", StrV("openai"))
        tier == PyGet(model_config, "tier", StrV("gpt-4"))
    IN  IF provider.raised THEN provider
        ELSE IF provider.value = StrV("openai")
        THEN IF ~Hashable(tier.value)
             THEN Raise("TypeError", <<"unhashable type: ", "'", TypeName(tier.value), "'">>)
             ELSE Ok(IF tier.value.t = "str" /\ tier.value.s \in DOMAIN tier_mapping
                     THEN tier_mapping[tier.value.s] ELSE "gpt-4")
        ELSE Ok("gpt-4")

\* the descriptors appended to openai_tools
FunctionTool(name, description) ==
    [type |-> "function",
     function |-> [name |-> name, description |-> description,
                   parameters |-> [type |-> "object", properties |-> <<>>,
                                   required |-> <<>>]]]

\* the loop with every builtin tool passed through
RECURSIVE MapEveryBuiltin(_)
MapEveryBuiltin(items) ==
    IF items = <<>> THEN Ok(<<>>)
    ELSE LET tool == Head(items)
             tool_type == PyGet(tool, "type", NullV)
             rest == MapEveryBuiltin(Tail(items))
         IN  IF tool_type.raised THEN tool_type
             ELSE IF rest.raised THEN rest
             ELSE IF tool_type.value = StrV("builtin")
             THEN Ok(<<[type |-> ToText(PyGet(tool, "id", NullV).value)]>> \o rest.value)
             ELSE IF tool_type.value = StrV("http")
             THEN Ok(<<FunctionTool(PyGet(tool, "id", NullV).value,
                                    PyGet(tool, "description", StrV("")).value)>>
                     \o rest.value)
             ELSE rest

\* the body of `for tool in tools`, from the first of items on
RECURSIVE MapTools(_)
MapTools(items) ==
    IF items = <<>> THEN Ok(<<>>)
    ELSE LET tool == Head(items)
             tool_type == PyGet(tool, "type", NullV)
             rest == MapTools(Tail(items))
         IN  IF tool_type.raised THEN tool_type
             ELSE IF rest.raised THEN rest
             ELSE IF tool_type.value = StrV("builtin")
             THEN Ok((IF PyGet(tool, "id", NullV).value
                           \in {StrV("code_interpreter"), StrV("file_search")}
                      THEN <<[type |-> PyGet(tool, "id", NullV).value.s]>> ELSE <<>>)
                     \o rest.value)
             ELSE IF tool_type.value = StrV("http")
             THEN Ok(<<FunctionTool(PyGet(tool, "id", NullV).value,
                                    PyGet(tool, "description", StrV("")).value)>>
                     \o rest.value)
             ELSE rest

AgentRenderer_map_tools_to_openai(tools) ==
    LET items == PyIter(tools)
    IN  IF items.raised THEN items ELSE MapTools(items.value)

\* json.dump(config, f, indent=2, ensure_ascii=False), line by line
JsonDump(config) ==
    LET Scalar(v) ==
            CASE v.t = "null" -> "null"
              [] v.t = "str"  -> "\"" \o v.s \o "\""
              [] OTHER        -> ToText(v)
        \* one element of "tools"
        Tool(tool, last) ==
            (IF "function" \in DOMAIN tool
             THEN << "    {",
                     "      \"type\": \"function\",",
                     "      \"function\": {",
                     "        \"name\": " \o Scalar(tool.function.name) \o ",",
                     "        \"description\": " \o Scalar(tool.function.description) \o ",",
                     "        \"parameters\": {",
                     "          \"type\": \"object\",",
                     "          \"properties\": {},",
                     "          \"required\": []",
                     "        }",
                     "      }" >>
             ELSE << "    {", "      \"type\": \"" \o tool.type \o "\"" >>)
            \o << IF last THEN "    }" ELSE "    }," >>
        RECURSIVE Tools(_)
        Tools(tools) ==
            IF tools = <<>> THEN <<>>
            ELSE Tool(Head(tools), Len(tools) = 1) \o Tools(Tail(tools))
    IN  << "{",
           "  \"name\": " \o Scalar(config.name) \o ",",
           "  \"description\": " \o Scalar(config.description) \o ",",
           "  \"instructions\": " \o Scalar(config.instructions) \o ",",
           "  \"model\": \"" \o config.model \o "\"," >>
        \o (IF config.tools = <<>> THEN << "  \"tools\": []," >>
            ELSE << "  \"tools\": [" >> \o Tools(config.tools) \o << "  ]," >>)
        \o << "  \"metadata\": {",
              "    \"agent_id\": " \o Scalar(config.metadata.agent_id) \o ",",
              "    \"version\": " \o Scalar(config.metadata.version) \o ",",
              "    \"owner\": " \o Scalar(config.metadata.owner),
              "  }",
              "}" >>

AgentRenderer_render_assistant_config(on, spec_path, output_dir) ==
    LET spec == LoadSpec(spec_path)
    IN  IF spec.raised THEN Failed(on, spec.exc)
        ELSE IF ~IsMap(spec.value) THEN Failed(on, NoAttribute(spec.value, "get").exc)
        ELSE LET model == AgentRenderer_map_model_to_openai(
                              PyGet(spec.value, "model", EmptyMap).value)
                 tools == AgentRenderer_map_tools_to_openai(
                              PyGet(spec.value, "tools", ListV(<<>>)).value)
                 owner == PyGet(PyGet(spec.value, "ownership", EmptyMap).value,
                                "owner", NullV)
                 agent_id == PyGet(spec.value, "id", StrV(Stem(spec_path.path))).value
             IN  IF model.raised THEN Failed(on, model.exc)
                 ELSE IF tools.raised THEN Failed(on, tools.exc)
                 ELSE IF owner.raised THEN Failed(on, owner.exc)
                 ELSE WriteOutput(on, output_dir, ToText(agent_id) \o "_assistant.json",
                         JsonDump([name |-> PyGet(spec.value, "name", NullV).value,
                                   description |-> PyGet(spec.value, "summary", NullV).value,
                                   instructions |-> PyGet(spec.value, "role", NullV).value,
                                   model |-> model.value,
                                   tools |-> tools.value,
                                   metadata |->
                                     [agent_id |-> PyGet(spec.value, "id", NullV).value,
                                      version |-> PyGet(spec.value, "version", NullV).value,
                                      owner |-> owner.value]]))

(***************************************************************************)
(* ClaudeAdapter and LangGraphAdapter                                      *)
(***************************************************************************)
\* generate_subagent_file with the output directory made before the
\* specification is loaded
SubagentFileMkdirFirst(self, on, spec_path, output_dir) ==
    AgentRenderer_render_claude_agent(self, [on EXCEPT !.dirs = @ \cup {output_dir}],
                                      spec_path, output_dir)

\* the steps of generate_subagent_file are those of render_claude_agent
ClaudeAdapter_generate_subagent_file(self, on, spec_path, output_dir) ==
    AgentRenderer_render_claude_agent(self, on, spec_path, output_dir)

\* the steps of generate_agent_file are those of render_langgraph_agent
LangGraphAdapter_generate_agent_file(self, on, spec_path, output_dir) ==
    AgentRenderer_render_langgraph_agent(self, on, spec_path, output_dir)

\* `sub in s` for two strings
Contains(s, sub) ==
    \E i \in 1..(Len(s) - Len(sub) + 1) : SubSeq(s, i, i + Len(sub) - 1) = sub

\* the for loop over yaml_files from its first file on: the file system it
\* leaves and generated_files
RECURSIVE generate_all_claude_agents(_, _, _)
generate_all_claude_agents(on, yaml_files, output_dir) ==
    IF yaml_files = <<>> THEN Done(on, <<>>)
    ELSE IF Contains(Head(yaml_files).path, "_templates")
    THEN generate_all_claude_agents(on, Tail(yaml_files), output_dir)
    ELSE LET \* the rest of the loop, after this file ended as `one`
             Rest(one) ==
                 LET Collected(rest) ==
                         Done(rest.fs,
                              (IF one.raised THEN <<>> ELSE <<one.value>>) \o rest.value)
                 IN  Collected(generate_all_claude_agents(
                                   one.fs, Tail(yaml_files), output_dir))
         IN  Rest(ClaudeAdapter_generate_subagent_file(
                      [templates_dir |-> TEMPLATES_DIR], on, Head(yaml_files), output_dir))

\* a < b for two strings of the characters of the requirement lines
RECURSIVE StrLess(_, _)
StrLess(a, b) ==
    LET \* the characters in ascending code point order
        CodePoints == "-.0123456789=>_abcdefghijklmnopqrstuvwxyz"
        Ord(c) == CHOOSE i \in 1..Len(CodePoints) : SubSeq(CodePoints, i, i) = c
    IN  IF b = "" THEN FALSE
        ELSE IF a = "" THEN TRUE
        ELSE IF Head(a) = Head(b) THEN StrLess(Tail(a), Tail(b))
        ELSE Ord(Head(a)) < Ord(Head(b))

\* sorted(S, reverse=True)
PySortedReverse(S) ==
    [i \in 1..Cardinality(S) |->
        CHOOSE x \in S : Cardinality({y \in S : StrLess(x, y)}) = i - 1]

\* sorted(S)
PySorted(S) ==
    [i \in 1..Cardinality(S) |->
        CHOOSE x \in S : Cardinality({y \in S : StrLess(y, x)}) = i - 1]

\* spec['model']['provider'] for each spec in specs
RECURSIVE ProvidersSubscripted(_)
ProvidersSubscripted(specs) ==
    IF specs = <<>> THEN Ok({})
    ELSE LET spec == Head(specs)
             rest == ProvidersSubscripted(Tail(specs))
         IN  IF ~IsMap(spec) \/ "model" \notin DOMAIN spec.m
             THEN Raise("KeyError", <<"'", "model", "'">>)
             ELSE IF ~IsMap(spec.m["model"]) \/ "provider" \notin DOMAIN spec.m["model"].m
             THEN Raise("KeyError", <<"'", "provider", "'">>)
             ELSE IF rest.raised THEN rest
             ELSE Ok({spec.m["model"].m["provider"]} \cup rest.value)

\* spec.get('model', {}).get('provider', 'anthropic') for each spec in specs
RECURSIVE ProvidersOf(_)
ProvidersOf(specs) ==
    IF specs = <<>> THEN Ok({})
    ELSE LET model == PyGet(Head(specs), "model", EmptyMap)
             provider == IF model.raised THEN model
                         ELSE PyGet(model.value, "provider", StrV("anthropic"))
             rest == ProvidersOf(Tail(specs))
         IN  IF provider.raised THEN provider
             ELSE IF rest.raised THEN rest
             ELSE Ok({provider.value} \cup rest.value)

LangGraphAdapter_generate_requirements_file(on, specs, output_dir) ==
    LET providers == ProvidersOf(specs)
    IN  IF providers.raised THEN Failed(on, providers.exc)
        ELSE LET requirements ==
                     {"langgraph>=0.0.60", "langchain>=0.1.0", "langchain-core>=0.1.0"}
                     \cup (IF StrV("anthropic") \in providers.value
                           THEN {"langchain-anthropic>=0.1.0"} ELSE {})
                     \cup (IF StrV("openai") \in providers.value
                           THEN {"langchain-openai>=0.1.0"} ELSE {})
             IN  WriteFile(on, output_dir, "requirements.txt", PySorted(requirements))

\* the three fixed texts of app.py, line by line
AppHeader ==
    << "\"\"\"LangGraph Agents Application",
       "",
       "Generated agent collection with FastAPI server.",
       "\"\"\"",
       "",
       "import asyncio",
       "from typing import Dict, Any, List",
       "from fastapi import FastAPI, HTTPException",
       "from pydantic import BaseModel",
       "import uvicorn",
       "",
       "# Import all generated agents" >>

AppRegistry ==
    << "",
       "",
       "app = FastAPI(title=\"LangGraph Agents API\", version=\"1.0.0\")",
       "",
       "# Agent registry",
       "agents = {}",
       "",
       "class AgentRequest(BaseModel):",
       "    message: str",
       "    agent_id: str",
       "    metadata: Dict[str, Any] = {}",
       "",
       "class AgentResponse(BaseModel):",
       "    success: bool",
       "    response: str = None",
       "    error: str = None",
       "    agent_id: str",
       "    metadata: Dict[str, Any] = {}",
       "",
       "@app.on_event(\"startup\")",
       "async def startup_event():",
       "    \"\"\"Initialize all agents.\"\"\"",
       "    global agents",
       "    " >>

AppEndpoints ==
    << "",
       "    print(f\"Initialized {len(agents)} agents: {list(agents.keys())}\")",
       "",
       "@app.get(\"/\")",
       "async def root():",
       "    \"\"\"Root endpoint with API information.\"\"\"",
       "    return {",
       "        \"message\": \"LangGraph Agents API\",",
       "        \"agents\": list(agents.keys()),",
       "        \"endpoints\": [\"/agents\", \"/agents/{agent_id}/invoke\"]",
       "    }",
       "",
       "@app.get(\"/agents\")",
       "async def list_agents():",
       "    \"\"\"List all available agents.\"\"\"",
       "    return {",
       "        \"agents\": [",
       "            {",
       "                \"id\": agent_id,",
       "                \"name\": agent.name,",
       "                \"description\": agent.description",
       "            }",
       "            for agent_id, agent in agents.items()",
       "        ]",
       "    }",
       "",
       "@app.post(\"/agents/{agent_id}/invoke\", response_model=AgentResponse)",
       "async def invoke_agent(agent_id: str, request: AgentRequest):",
       "    \"\"\"Invoke a specific agent.\"\"\"",
       "    if agent_id not in agents:",
       "        raise HTTPException(status_code=404, detail=f\"Agent {agent_id} not found\")",
       "    ",
       "    agent = agents[agent_id]",
       "    result = await agent.ainvoke(request.message)",
       "    ",
       "    return AgentResponse(",
       "        success=result[\"success\"],",
       "        response=result.get(\"response\"),",
       "        error=result.get(\"error\"),",
       "        agent_id=agent_id,",
       "        metadata=result.get(\"metadata\", {})",
       "    )",
       "",
       "if __name__ == \"__main__\":",
       "    uvicorn.run(app, host=\"0.0.0.0\", port=8000)" >>

\* the registry line keyed by the factory's name
RegistryLineByClassName(agent_id, class_name) ==
    "    agents[\"" \o class_name \o "\"] = create_" \o class_name \o "_agent()"

RegistryLine(agent_id, class_name) ==
    "    agents[\"" \o agent_id \o "\"] = create_" \o class_name \o "_agent()"

\* agent_id and class_name of each spec in specs, as the two loops compute them
RECURSIVE AgentNames(_)
AgentNames(specs) ==
    IF specs = <<>> THEN Ok(<<>>)
    ELSE LET agent_id == PyGet(Head(specs), "id", StrV("unknown"))
             class_name == IF agent_id.raised THEN agent_id
                           ELSE PyReplace(agent_id.value, "-", "_")
             rest == AgentNames(Tail(specs))
         IN  IF class_name.raised THEN class_name
             ELSE IF rest.raised THEN rest
             ELSE Ok(<<[agent_id |-> agent_id.value.s, class_name |-> class_name.value]>>
                     \o rest.value)

LangGraphAdapter_generate_app_file(on, specs, output_dir) ==
    LET names == AgentNames(specs)
    IN  IF names.raised THEN Failed(on, names.exc)
        ELSE WriteFile(on, output_dir, "app.py",
                 AppHeader
                 \o [i \in DOMAIN names.value |->
                        "from " \o names.value[i].class_name \o "_agent import create_"
                        \o names.value[i].class_name \o "_agent"]
                 \o AppRegistry
                 \o [i \in DOMAIN names.value |->
                        RegistryLine(names.value[i].agent_id, names.value[i].class_name)]
                 \o AppEndpoints)

\* the for loop of generate_all_langgraph_agents from the first of yaml_files
\* on: the file system it leaves, generated_files and specs
RECURSIVE LangGraphBatch(_, _, _)
LangGraphBatch(on, yaml_files, output_dir) ==
    IF yaml_files = <<>> THEN Done(on, [generated_files |-> <<>>, specs |-> <<>>])
    ELSE IF Contains(Head(yaml_files).path, "_templates")
    THEN LangGraphBatch(on, Tail(yaml_files), output_dir)
    ELSE LET \* the rest of the loop, after this file ended as `one`
             Rest(spec, one) ==
                 LET Collected(rest) ==
                         Done(rest.fs,
                              [generated_files |-> (IF one.raised THEN <<>> ELSE <<one.value>>)
                                                   \o rest.value.generated_files,
                               specs |-> (IF spec.raised THEN <<>> ELSE <<spec.value>>)
                                         \o rest.value.specs])
                 IN  Collected(LangGraphBatch(one.fs, Tail(yaml_files), output_dir))
             \* load_agent_spec, specs.append, generate_agent_file; except: the error
             \* is printed
             Body(spec) ==
                 IF spec.raised THEN Rest(spec, Failed(on, spec.exc))
                 ELSE Rest(spec, LangGraphAdapter_generate_agent_file(
                                     [templates_dir |-> TEMPLATES_DIR],
                                     on, Head(yaml_files), output_dir))
         IN  Body(LoadSpec(Head(yaml_files)))

generate_all_langgraph_agents(on, yaml_files, output_dir) ==
    LET \* `if specs:` the two derived files are written, nothing catches their errors
        Derived(batch) ==
            LET AppFile(app_file) ==
                    IF app_file.raised THEN app_file
                    ELSE Done(app_file.fs, batch.value.generated_files)
                ReqFile(req_file) ==
                    IF req_file.raised THEN req_file
                    ELSE AppFile(LangGraphAdapter_generate_app_file(
                                     req_file.fs, batch.value.specs, output_dir))
            IN  IF batch.value.specs = <<>> THEN Done(batch.fs, batch.value.generated_files)
                ELSE ReqFile(LangGraphAdapter_generate_requirements_file(
                                 batch.fs, batch.value.specs, output_dir))
    IN  Derived(LangGraphBatch(on, yaml_files, output_dir))

(***************************************************************************)
(* The generated app.py, run: its imports, its registry, its invoke        *)
(* endpoint.                                                               *)
(***************************************************************************)
\* the position of the first sub in s, 0 when there is none
IndexOf(s, sub) ==
    LET at == {i \in 1..(Len(s) - Len(sub) + 1) : SubSeq(s, i, i + Len(sub) - 1) = sub}
    IN  IF at = {} THEN 0 ELSE CHOOSE i \in at : \A j \in at : i <= j

\* python app.py in dir, then POST /agents/{agent_id}/invoke
invoke_agent(on, dir, agent_id) ==
    LET lines == on.files[Under(dir, "app.py")]
        IsAgentImport(line) ==
            IndexOf(line, "from ") = 1 /\ Contains(line, "_agent import create_")
        ImportedModule(line) == SubSeq(line, 6, IndexOf(line, " import ") - 1)
        IsRegistryLine(line) == IndexOf(line, "    agents[\"") = 1
        RegistryKey(line) == SubSeq(line, 13, IndexOf(line, "\"]") - 1)
        missing == {i \in DOMAIN lines :
                      /\ IsAgentImport(lines[i])
                      /\ Under(dir, ImportedModule(lines[i]) \o ".py") \notin DOMAIN on.files}
        agents == {RegistryKey(lines[i]) : i \in {j \in DOMAIN lines : IsRegistryLine(lines[j])}}
    IN  IF missing # {}
        THEN Failed(on, [type |-> "ModuleNotFoundError",
                         msg |-> <<"No module named ", "'",
                                   ImportedModule(lines[CHOOSE i \in missing :
                                                           \A j \in missing : i <= j]),
                                   "'">>])
        ELSE IF agent_id \notin agents
        THEN Done(on, [status_code |-> 404, detail |-> "Agent " \o agent_id \o " not found"])
        ELSE Done(on, [status_code |-> 200, detail |-> agent_id])

(***************************************************************************)
(* The render command of the CLI.                                          *)
(***************************************************************************)
ADAPTERS_DIR == "adapters"

\* the message is printed and the command returns, as if nothing had failed
ExitZero(on, code, console) == Done(on, [exit_code |-> 0, console |-> console])

\* the command ends: its exit status and what it printed
Exit(on, code, console) == Done(on, [exit_code |-> code, console |-> console])

\* render(target, agent_id, output_dir); "" stands for an option not given
render(on, yaml_files, target, agent_id, output_dir_option) ==
    LET output_dir == IF output_dir_option = "" THEN Under(ADAPTERS_DIR, target)
                      ELSE output_dir_option
        \* the agent file found by its stem is rendered
        One(output_file) ==
            IF output_file.raised THEN output_file
            ELSE Exit(output_file.fs, 0, <<"Generated " \o Name(output_file.value)>>)
        \* every agent file is rendered
        All(generated_files, what) ==
            IF generated_files.raised THEN generated_files
            ELSE Exit(generated_files.fs, 0,
                      <<"Generated " \o IntToStr(Len(generated_files.value)) \o what>>)
    IN  CASE target = "claude" /\ agent_id # "" ->
               LET found == {i \in DOMAIN yaml_files : Stem(yaml_files[i].path) = agent_id}
               IN  IF found = {}
                   THEN Exit(on, 1, <<"Agent '" \o agent_id \o "' not found">>)
                   ELSE One(AgentRenderer_render_claude_agent(
                                [templates_dir |-> TEMPLATES_DIR], on, yaml_files[CHOOSE i \in found : \A j \in found : i <= j],
                                output_dir))
          [] target = "claude" /\ agent_id = "" ->
               All(generate_all_claude_agents(on, yaml_files, output_dir),
                   " Claude subagents")
          [] target = "langgraph" ->
               All(generate_all_langgraph_agents(on, yaml_files, output_dir),
                   " LangGraph agents")
          [] target = "assistants" ->
               Exit(on, 1, <<"OpenAI/CrewAI adapter not yet implemented">>)
          [] OTHER ->
               Exit(on, 1, <<"Unknown target: " \o target,
                             "Available targets: claude, langgraph, assistants">>)

(***************************************************************************)
(* The specification files the generation layer is run on.                 *)
(***************************************************************************)
\* sample_agent_spec of the adapter tests
TestAgentSpec ==
    MapV([id |-> StrV("test-agent"),
          name |-> StrV("Test Agent"),
          summary |-> StrV("A test agent for adapter testing"),
          role |-> StrV("You are a test agent."),
          model |-> MapV([provider |-> StrV("anthropic"), family |-> StrV("claude"),
                          tier |-> StrV("sonnet")]),
          tools |-> ListV(<<MapV([id |-> StrV("test_tool"), type |-> StrV("builtin"),
                                  description |-> StrV("A test tool")])>>),
          constraints |-> MapV([pii_policy |-> StrV("mask")]),
          evaluation |-> MapV([acceptance |-> ListV(<<StrV("Should work correctly")>>)]),
          ownership |-> MapV([owner |-> StrV("test@example.com"), team |-> StrV("Test Team")]),
          version |-> StrV("1.0.0")])

\* an openai agent with a builtin tool of the allow-list, an http tool
\* without a description and a tool of another type
SqlHelperSpec ==
    MapV([id |-> StrV("sql-query-helper"),
          name |-> StrV("SQL Helper"),
          summary |-> StrV("Writes queries"),
          role |-> StrV("You write SQL."),
          model |-> MapV([provider |-> StrV("openai"), tier |-> StrV("gpt-4o")]),
          tools |-> ListV(<<MapV([id |-> StrV("code_interpreter"), type |-> StrV("builtin")]),
                            MapV([id |-> StrV("run_query"), type |-> StrV("http")]),
                            MapV([id |-> StrV("schema_lookup"), type |-> StrV("mcp"),
                                  description |-> StrV("Looks a table up")])>>),
          ownership |-> MapV([owner |-> StrV("data@example.com")]),
          version |-> StrV("0.2.0")])

\* the files under AGENTS_DIR: the two agents, an early draft without id,
\* model, tools, constraints, evaluation and ownership, and a second file
\* that declares the id test-agent, with another provider
SpecFiles ==
    { Holds("agents/engineering/test-agent.yaml", TestAgentSpec),
      Holds("agents/data/sql-query-helper.yaml", SqlHelperSpec),
      Holds("agents/ops/draft-agent.yaml",
            MapV([name |-> StrV("Draft Agent"),
                  summary |-> StrV("Not written yet"),
                  role |-> StrV("You are a draft.")])),
      Holds("agents/qa/test-agent.yaml",
            MapV([id |-> StrV("test-agent"),
                  name |-> StrV("Review Agent"),
                  summary |-> StrV("Reviews changes"),
                  role |-> StrV("You review."),
                  model |-> MapV([provider |-> StrV("google")]),
                  version |-> StrV("2.0.0")])),
      \* a file that is no YAML, an empty file, and the boilerplate
      \* init-agent copies
      Malformed("agents/ops/broken.yaml"),
      Holds("agents/ops/empty.yaml", NullV),
      Holds("agents/_templates/agent-template.yaml",
            MapV([id |-> StrV("my-agent-id"),
                  name |-> StrV("My Agent Name"),
                  summary |-> StrV("Brief description"),
                  role |-> StrV("You are an expert."),
                  model |-> MapV([provider |-> StrV("anthropic"),
                                  tier |-> StrV("sonnet")]),
                  version |-> StrV("1.0.0")])) }

\* AGENTS_DIR.rglob("*.yaml"): the files in the order the file system lists them
Listings ==
    {l \in UNION {[1..n -> SpecFiles] : n \in 0..MaxSpecs} :
        \A i, j \in DOMAIN l : i # j => l[i] # l[j]}

\* the directory the tests and the --output-dir option name
OutputDir == "out"

\* the directories a renderer is constructed with: the templates of the
\* repository, and a directory that holds no template
TemplateDirs == {TEMPLATES_DIR, OutputDir}

\* the model descriptors _map_model_to_openai is given
ModelConfigs ==
    { EmptyMap,
      MapV([tier |-> StrV("gpt-4o")]),
      MapV([provider |-> StrV("openai")]),
      MapV([provider |-> StrV("openai"), tier |-> StrV("gpt-3.5")]),
      MapV([provider |-> StrV("openai"), tier |-> StrV("gpt-4")]),
      MapV([provider |-> StrV("openai"), tier |-> StrV("o1")]),
      MapV([provider |-> StrV("anthropic"), tier |-> StrV("gpt-3.5")]) }

\* the tool lists _map_tools_to_openai is given
ToolLists ==
    { ListV(<<>>) } \cup
    { ListV(<<tool>>) : tool \in
        { MapV([id |-> StrV("file_search"), type |-> StrV("builtin")]),
          MapV([id |-> StrV("run_query"), type |-> StrV("http"),
                description |-> StrV("Runs a query")]),
          MapV([id |-> StrV("lookup")]) } } \cup
    { SqlHelperSpec.m["tools"], TestAgentSpec.m["tools"] }

\* the command lines of render: target, --agent, --output-dir
RenderRequests ==
    { <<"claude", "", "">>, <<"claude", "test-agent", "">>, <<"claude", "nobody", "">>,
      <<"langgraph", "", "">>, <<"langgraph", "", OutputDir>>,
      <<"assistants", "test-agent", OutputDir>>,
      <<"crewai", "", "">> }

\* the parsed documents of the files of a listing
SpecsOf(yaml_files) == [i \in DOMAIN yaml_files |-> yaml_files[i].parsed]

(***************************************************************************)
(* The generation layer as a state machine: every step is one call, made   *)
(* on the specification files of agents_dir and the file system fs.        *)
(***************************************************************************)
RenderInit ==
    /\ agent_validator = [schema_path |-> "schemas/agent-spec-v1.json",
                          schema |-> AgentSchema]
    /\ recipe_validator = [schema_path |-> "schemas/recipe-spec-v1.json",
                           schema |-> RecipeSchema]
    /\ data = NullV
    /\ source = Missing(YamlPath)
    /\ ret = NoCall
    /\ agents_dir \in Listings
    /\ \E made \in SUBSET {OutputDir} :
          fs = [files |-> <<>>,
                dirs |-> {Under(ADAPTERS_DIR, "claude"), Under(ADAPTERS_DIR, "langgraph")}
                         \cup made]
    /\ calls = 0
    /\ gen = NoRender

\* the call op(arg) is made and ends as result says
Generate(op, arg, result) ==
    /\ calls < MaxCalls
    /\ calls' = calls + 1
    /\ fs' = result.fs
    /\ gen' = [op |-> op, arg |-> arg, again |-> (gen.op = op /\ gen.arg = arg),
               raised |-> result.raised, exc |-> result.exc, value |-> result.value]
    /\ UNCHANGED agents_dir
    /\ UNCHANGED validator_vars

\* a call that touches no file
Returns(outcome) ==
    [raised |-> outcome.raised, exc |-> outcome.exc, fs |-> fs, value |-> outcome.value]

RenderClaudeAgent ==
    \E i \in DOMAIN agents_dir, templates_dir \in TemplateDirs :
        Generate("AgentRenderer.render_claude_agent", <<agents_dir[i].path, OutputDir, templates_dir>>,
                 AgentRenderer_render_claude_agent([templates_dir |-> templates_dir],
                    fs, agents_dir[i], OutputDir))

RenderLanggraphAgent ==
    \E i \in DOMAIN agents_dir, templates_dir \in TemplateDirs :
        Generate("AgentRenderer.render_langgraph_agent", <<agents_dir[i].path, OutputDir, templates_dir>>,
                 AgentRenderer_render_langgraph_agent([templates_dir |-> templates_dir],
                    fs, agents_dir[i], OutputDir))

RenderAssistantConfig ==
    \E i \in DOMAIN agents_dir :
        Generate("AgentRenderer.render_assistant_config", <<agents_dir[i].path, OutputDir>>,
                 AgentRenderer_render_assistant_config(fs, agents_dir[i], OutputDir))

MapModelToOpenai ==
    \E model_config \in ModelConfigs :
        Generate("AgentRenderer._map_model_to_openai", <<model_config>>,
                 Returns(AgentRenderer_map_model_to_openai(model_config)))

MapToolsToOpenai ==
    \E tools \in ToolLists :
        Generate("AgentRenderer._map_tools_to_openai", <<tools>>,
                 Returns(AgentRenderer_map_tools_to_openai(tools)))

GenerateSubagentFile ==
    \E i \in DOMAIN agents_dir, templates_dir \in TemplateDirs :
        Generate("ClaudeAdapter.generate_subagent_file", <<agents_dir[i].path, OutputDir, templates_dir>>,
                 ClaudeAdapter_generate_subagent_file([templates_dir |-> templates_dir],
                    fs, agents_dir[i], OutputDir))

GenerateAgentFile ==
    \E i \in DOMAIN agents_dir, templates_dir \in TemplateDirs :
        Generate("LangGraphAdapter.generate_agent_file", <<agents_dir[i].path, OutputDir, templates_dir>>,
                 LangGraphAdapter_generate_agent_file([templates_dir |-> templates_dir],
                    fs, agents_dir[i], OutputDir))

GenerateRequirementsFile ==
    Generate("LangGraphAdapter.generate_requirements_file", <<OutputDir>>,
             LangGraphAdapter_generate_requirements_file(fs, SpecsOf(agents_dir), OutputDir))

GenerateAppFile ==
    Generate("LangGraphAdapter.generate_app_file", <<OutputDir>>,
             LangGraphAdapter_generate_app_file(fs, SpecsOf(agents_dir), OutputDir))

GenerateAllClaudeAgents ==
    Generate("generate_all_claude_agents", <<OutputDir>>,
             generate_all_claude_agents(fs, agents_dir, OutputDir))

GenerateAllLanggraphAgents ==
    Generate("generate_all_langgraph_agents", <<OutputDir>>,
             generate_all_langgraph_agents(fs, agents_dir, OutputDir))

CliRender ==
    \E request \in RenderRequests :
        Generate("render", request,
                 render(fs, agents_dir, request[1], request[2], request[3]))

InvokeAgent ==
    \E dir \in fs.dirs, agent_id \in {"test-agent", "unknown", "nobody"} :
        /\ Under(dir, "app.py") \in DOMAIN fs.files
        /\ Generate("invoke_agent", <<dir, agent_id>>, invoke_agent(fs, dir, agent_id))

RenderNext ==
    \/ RenderClaudeAgent
    \/ RenderLanggraphAgent
    \/ RenderAssistantConfig
    \/ MapModelToOpenai
    \/ MapToolsToOpenai
    \/ GenerateSubagentFile
    \/ GenerateAgentFile
    \/ GenerateRequirementsFile
    \/ GenerateAppFile
    \/ GenerateAllClaudeAgents
    \/ GenerateAllLanggraphAgents
    \/ CliRender
    \/ InvokeAgent

RenderSpec == RenderInit /\ [][RenderNext]_vars

(***************************************************************************)
(* The validate command of the CLI.                                        *)
(***************************************************************************)
\* a path given to the command: whether it exists, and the YAML files found
\* at it (the file itself, or what rglob lists under the directory)
NoPath(path) == [path |-> path, exists |-> FALSE, yaml_files |-> <<>>]
Found(path, yaml_files) == [path |-> path, exists |-> TRUE, yaml_files |-> yaml_files]

\* the file src at another place
At(path, src) == [src EXCEPT !.path = path]

\* the loop over yaml_files: every way it can end, given the counters, the
\* collected errors and the console lines so far
RECURSIVE ValidateFiles(_, _, _, _, _)
ValidateFiles(agent_v, recipe_v, yaml_files, verbose, sofar) ==
    IF yaml_files = <<>> THEN {sofar}
    ELSE IF Contains(Head(yaml_files).path, "_templates")
    THEN ValidateFiles(agent_v, recipe_v, Tail(yaml_files), verbose, sofar)
    ELSE LET yaml_file == Head(yaml_files)
             Rest(now) == ValidateFiles(agent_v, recipe_v, Tail(yaml_files), verbose, now)
             \* total_files += 1 comes before the validator is chosen
             counted == [sofar EXCEPT !.total_files = @ + 1]
             \* validator.validate_file(yaml_file) returned `out`
             Validated(file_type, out) ==
                 LET mark == <<Name(yaml_file.path), " (", file_type, ")">>
                     seen == [file |-> yaml_file.path, file_type |-> file_type,
                              is_valid |-> out.is_valid, errors |-> out.errors]
                 IN  IF out.is_valid
                     THEN Rest([counted EXCEPT
                                  !.valid_files = @ + 1,
                                  !.validated = Append(@, seen),
                                  !.console = @ \o (IF verbose THEN << <<"<check> ">> \o mark >>
                                                    ELSE <<>>)])
                     ELSE Rest([counted EXCEPT
                                  !.validated = Append(@, seen),
                                  !.errors = @ \o [i \in DOMAIN out.errors |->
                                                     [file |-> yaml_file.path,
                                                      file_type |-> file_type,
                                                      error |-> out.errors[i]]],
                                  !.console = @ \o << <<"<cross> ">> \o mark >>
                                                \o (IF verbose
                                                    THEN [i \in DOMAIN out.errors |->
                                                            <<"   <bullet> ">> \o out.errors[i]]
                                                    ELSE <<>>)])
             Agent == UNION {Validated("agent", AgentValidator_validate_file(agent_v, yaml_file))}
             Recipe == UNION {Validated("recipe", out) :
                                out \in RecipeValidator_validate_file(recipe_v, yaml_file)}
             \* the bare except: the file is skipped
             Skipped == Rest([counted EXCEPT
                                !.console = Append(@, <<"Could not determine type for ",
                                                        yaml_file.path, ", skipping">>)])
             \* 'graph' in content
             ByContent(has_graph) ==
                 IF has_graph.raised THEN Skipped
                 ELSE IF has_graph.value THEN Recipe ELSE Agent
         IN  IF Contains(yaml_file.path, "agents") THEN Agent
             ELSE IF Contains(yaml_file.path, "recipes") THEN Recipe
             ELSE IF LoadSpec(yaml_file).raised THEN Skipped
             ELSE ByContent(PyIn("graph", yaml_file.parsed))

\* the loop over paths_to_validate
RECURSIVE ValidatePaths(_, _, _, _, _)
ValidatePaths(agent_v, recipe_v, paths_to_validate, verbose, sofar) ==
    IF paths_to_validate = <<>> THEN {sofar}
    ELSE LET validate_path == Head(paths_to_validate)
             Rest(now) ==
                 ValidatePaths(agent_v, recipe_v, Tail(paths_to_validate), verbose, now)
         IN  IF ~validate_path.exists
             THEN Rest([sofar EXCEPT
                          !.console = Append(@, <<"Path does not exist: ",
                                                  validate_path.path>>)])
             ELSE UNION {Rest(now) :
                           now \in ValidateFiles(agent_v, recipe_v,
                                                 validate_path.yaml_files, verbose, sofar)}

\* validate(path, agent_schema, recipe_schema, verbose): the summary, the
\* errors when not verbose, the exit status
validate(agent_v, recipe_v, paths_to_validate, verbose) ==
    LET Ended(loop) ==
            [exit_code |-> IF loop.total_files - loop.valid_files > 0 THEN 1 ELSE 0,
             validated |-> loop.validated,
             console |->
                loop.console
                \o << <<"Validation Summary">>,
                      <<"Total files: ", IntToStr(loop.total_files)>>,
                      <<"Valid files: ", IntToStr(loop.valid_files)>>,
                      <<"Invalid files: ", IntToStr(loop.total_files - loop.valid_files)>> >>
                \o (IF loop.errors # <<>> /\ ~verbose
                    THEN << <<"Errors found:">> >>
                         \o [i \in DOMAIN loop.errors |->
                               <<"<cross> ", Name(loop.errors[i].file), " (",
                                 loop.errors[i].file_type, "): ">> \o loop.errors[i].error]
                    ELSE <<>>)]
    IN  {Ended(loop) :
           loop \in ValidatePaths(agent_v, recipe_v, paths_to_validate, verbose,
                                  [total_files |-> 0, valid_files |-> 0, errors |-> <<>>,
                                   validated |-> <<>>, console |-> <<>>])}

\* where the repository is checked out
ProjectRoots == {"/srv/checkout", "/home/dev/claude-code-agents"}

\* the paths the command is given: a file under an agents directory, one
\* under a recipes directory, one under neither, and the boilerplate
GivenFiles ==
    {"agents/engineering/helper.yaml", "recipes/deploy.yaml", "pipelines/deploy.yaml",
     "agents/_templates/agent-template.yaml"}

\* what rglob lists for a directory that holds the file `source` at path,
\* when there is such a file
FilesAt(path) == IF source.kind = "missing" THEN <<>> ELSE <<At(path, source)>>

\* validate without a path: AGENTS_DIR and RECIPES_DIR of the checkout, the
\* document `source` found in each of them
ValidateAll ==
    /\ \E project_root \in ProjectRoots, verbose \in BOOLEAN :
       \E out \in validate(agent_validator, recipe_validator,
                           <<Found(Under(project_root, "agents"),
                                   FilesAt(Under(project_root, "agents/core/helper.yaml"))),
                             Found(Under(project_root, "recipes"),
                                   FilesAt(Under(project_root, "recipes/deploy.yaml")))>>,
                           verbose) :
          ret' = Call("validate", out)
    /\ UNCHANGED <<agent_validator, recipe_validator, data, source>>
    /\ UNCHANGED render_vars

\* validate PATH: a file holding the document `source`, a directory without
\* YAML files, or a path that does not exist
ValidatePath ==
    /\ \E verbose \in BOOLEAN :
       \E given \in {IF source.kind = "missing" THEN NoPath(path)
                     ELSE Found(path, FilesAt(path)) : path \in GivenFiles}
                    \cup {Found("pipelines", <<>>)} :
       \E out \in validate(agent_validator, recipe_validator, <<given>>, verbose) :
          ret' = Call("validate", out)
    /\ UNCHANGED <<agent_validator, recipe_validator, data, source>>
    /\ UNCHANGED render_vars

ValidateNext ==
    \/ ValidateAll
    \/ ValidatePath

ValidateSpec == Init /\ [][ValidateNext]_vars

(***************************************************************************)
(* Vocabulary of the properties.                                           *)
(***************************************************************************)
OpAgentData == "AgentValidator.validate_data"
OpAgentFile == "AgentValidator.validate_file"
OpRecipeData == "RecipeValidator.validate_data"
OpRecipeFile == "RecipeValidator.validate_file"

\* the call evaluated a parsed document d with the schema of validator v
Evaluated(op, d) ==
    \/ ret.op = op /\ op \in {OpAgentData, OpRecipeData} /\ d = data
    \/ ret.op = op /\ op \in {OpAgentFile, OpRecipeFile}
       /\ source.kind = "yaml" /\ d = source.parsed

\* the schema violations of d, as the schema validator yields them
AgentViolations(d) == IterErrors(agent_validator.schema, d, <<>>)
RecipeViolations(d) == IterErrors(recipe_validator.schema, d, <<>>)

\* the stage graph of a recipe whose graph is a list
GraphOf(d) == d.m["graph"].items
HasParallel(stage) == "parallel" \in DOMAIN stage.m
HasSequence(stage) == "sequence" \in DOMAIN stage.m
Named(stage) == "stage" \in DOMAIN stage.m

\* d is a recipe mapping whose graph is a list of stages: mappings whose
\* name, when present, is a string
WellFormedGraph(d) ==
    /\ IsMap(d) /\ "graph" \in DOMAIN d.m /\ d.m["graph"].t = "list"
    /\ \A i \in DOMAIN GraphOf(d) :
          /\ IsMap(GraphOf(d)[i])
          /\ Named(GraphOf(d)[i]) => GraphOf(d)[i].m["stage"].t = "str"

\* the names occurring two or more times in the graph
DuplicatedNames(d) ==
    {GraphOf(d)[i].m["stage"].s : i \in {j \in DOMAIN GraphOf(d) :
        /\ Named(GraphOf(d)[j])
        /\ \E k \in DOMAIN GraphOf(d) :
              k # j /\ Named(GraphOf(d)[k])
              /\ GraphOf(d)[k].m["stage"] = GraphOf(d)[j].m["stage"]}}

\* no rule of the stage graph is broken
NoStageGraphViolation(d) ==
    /\ DuplicatedNames(d) = {}
    /\ \A i \in DOMAIN GraphOf(d) : HasParallel(GraphOf(d)[i]) # HasSequence(GraphOf(d)[i])

ValidAgent(d) == AgentViolations(d) = <<>>
ValidRecipe(d) == RecipeViolations(d) = <<>> /\ NoStageGraphViolation(d)

\* the entry ends with the message of the violation
EntryReports(entry, violation) ==
    /\ Len(entry) >= Len(violation.message)
    /\ SubSeq(entry, Len(entry) - Len(violation.message) + 1, Len(entry))
         = violation.message

\* the first entries of the list report the violations, one each, in order
ReportsInOrder(errors, found) ==
    /\ Len(errors) >= Len(found)
    /\ \A i \in DOMAIN found : EntryReports(errors[i], found[i])

Verdict(is_valid, errors) == Returned(is_valid, errors)

(***************************************************************************)
(* C1: a specification with no schema violation (and, for a recipe, no     *)
(* stage-graph violation) is answered (True, []) by validate_data and by   *)
(* validate_file on a file holding it, for both validators.                *)
(***************************************************************************)
C1_ValidReturnsTrue ==
    /\ \A d \in {data, source.parsed} :
          (Evaluated(OpAgentData, d) \/ Evaluated(OpAgentFile, d)) /\ ValidAgent(d)
              => ret.out = Verdict(TRUE, <<>>)
    /\ \A d \in {data, source.parsed} :
          (Evaluated(OpRecipeData, d) \/ Evaluated(OpRecipeFile, d)) /\ ValidRecipe(d)
              => ret.out = Verdict(TRUE, <<>>)

\* C1 holds of the entry points the validators define: the three of them
\* answer (True, []) for every valid specification
C1_DefinedEntryPoints ==
    /\ \A d \in {data, source.parsed} :
          (Evaluated(OpAgentData, d) \/ Evaluated(OpAgentFile, d)) /\ ValidAgent(d)
              => ret.out = Verdict(TRUE, <<>>)
    /\ \A d \in {data, source.parsed} :
          Evaluated(OpRecipeFile, d) /\ ValidRecipe(d)
              => ret.out = Verdict(TRUE, <<>>)

(***************************************************************************)
(* C2: schema validation never fails fast: a document with n >= 1 schema   *)
(* violations gets the verdict False and an error list whose entries       *)
(* report the n violations, one each, in the order the schema validator    *)
(* yields them (exactly n entries from AgentValidator; RecipeValidator may *)
(* append its semantic errors after them).                                 *)
(***************************************************************************)
C2_AllViolationsReported ==
    /\ \A d \in {data, source.parsed} :
          (Evaluated(OpAgentData, d) \/ Evaluated(OpAgentFile, d))
          /\ Len(AgentViolations(d)) >= 1
              => /\ ~ret.out.raised /\ ~ret.out.is_valid
                 /\ Len(ret.out.errors) = Len(AgentViolations(d))
                 /\ ReportsInOrder(ret.out.errors, AgentViolations(d))
    /\ \A d \in {source.parsed} :
          Evaluated(OpRecipeFile, d) /\ Len(RecipeViolations(d)) >= 1
              => /\ ~ret.out.raised /\ ~ret.out.is_valid
                 /\ ReportsInOrder(ret.out.errors, RecipeViolations(d))

(***************************************************************************)
(* Reading the entries of a returned error list.                           *)
(***************************************************************************)
\* the entry is the report of an exception caught by `except Exception`
IsInternalError(entry) == entry[1] = "Validation error: "
\* str.lower() of a token
Lower(token) == IF token = "Duplicate" THEN "duplicate" ELSE token
ContainsWord(entry, word) == \E i \in DOMAIN entry : Lower(entry[i]) = word
Occurrences(entry, token) == Cardinality({i \in DOMAIN entry : entry[i] = token})
IsDuplicateError(entry) == ContainsWord(entry, "duplicate")
IsStageError(entry) ==
    ContainsWord(entry, "must have either") \/ ContainsWord(entry, "cannot have both")

\* the names occurring in the graph
NamesOf(d) == {GraphOf(d)[i].m["stage"].s : i \in {j \in DOMAIN GraphOf(d) : Named(GraphOf(d)[j])}}

\* RecipeValidator.validate_file evaluated the well-formed stage graph of d
CheckedGraph(d) == Evaluated(OpRecipeFile, d) /\ WellFormedGraph(d)

(***************************************************************************)
(* C3: for a recipe whose stage graph repeats a stage name, validation     *)
(* fails and the error list holds exactly one duplicate-name error, which  *)
(* contains the word 'duplicate' and lists every duplicated name exactly   *)
(* once and no name that occurs once; a graph that repeats no name gets no *)
(* duplicate-name error.                                                   *)
(***************************************************************************)
C3_OneDuplicateError ==
    \A d \in {source.parsed} : CheckedGraph(d) =>
        LET dups == {i \in DOMAIN ret.out.errors : IsDuplicateError(ret.out.errors[i])}
        IN  IF DuplicatedNames(d) = {} THEN dups = {}
            ELSE /\ ~ret.out.raised /\ ~ret.out.is_valid
                 /\ Cardinality(dups) = 1
                 /\ \A i \in dups : \A name \in NamesOf(d) :
                       Occurrences(ret.out.errors[i], name)
                         = IF name \in DuplicatedNames(d) THEN 1 ELSE 0

\* a graph of four stages in which two different names are both repeated
C3_Witness ==
    \E d \in {source.parsed} :
        /\ CheckedGraph(d) /\ Cardinality(DuplicatedNames(d)) = 2
        /\ \E i \in DOMAIN ret.out.errors : IsDuplicateError(ret.out.errors[i])

(***************************************************************************)
(* C4: the stage errors of the list are, stage by stage in graph order:    *)
(* one 'must have either' error for a stage with neither 'sequence' nor    *)
(* 'parallel', one 'cannot have both' error for a stage with both, none    *)
(* for a stage with exactly one; each error cites the name of its stage,   *)
(* or stage_<i> (i the zero-based position) when the stage is unnamed.     *)
(***************************************************************************)
CitedName(d, i) ==
    IF Named(GraphOf(d)[i]) THEN GraphOf(d)[i].m["stage"].s
    ELSE "stage_" \o Digits[i]

RECURSIVE ExpectedStageErrors(_, _)
ExpectedStageErrors(d, i) ==
    IF i > Len(GraphOf(d)) THEN <<>>
    ELSE (CASE ~HasParallel(GraphOf(d)[i]) /\ ~HasSequence(GraphOf(d)[i])
                 -> << [cites |-> CitedName(d, i), says |-> "must have either"] >>
            [] HasParallel(GraphOf(d)[i]) /\ HasSequence(GraphOf(d)[i])
                 -> << [cites |-> CitedName(d, i), says |-> "cannot have both"] >>
            [] OTHER -> <<>>)
         \o ExpectedStageErrors(d, i + 1)

\* what a stage error cites (between the quotes) and says
StageErrorsOf(errors) ==
    LET stage_errors == SelectSeq(errors, IsStageError)
    IN  [i \in DOMAIN stage_errors |->
           [cites |-> stage_errors[i][2], says |-> stage_errors[i][4]]]

C4_ExecutionModeErrors ==
    \A d \in {source.parsed} : CheckedGraph(d) =>
        /\ ~ret.out.raised
        /\ StageErrorsOf(ret.out.errors) = ExpectedStageErrors(d, 1)
        /\ ExpectedStageErrors(d, 1) # <<>> => ~ret.out.is_valid

\* an unnamed second stage with neither mode after a named stage with both
C4_Witness ==
    \E d \in {source.parsed} :
        /\ CheckedGraph(d)
        /\ StageErrorsOf(ret.out.errors)
             = << [cites |-> "build", says |-> "cannot have both"],
                  [cites |-> "stage_1", says |-> "must have either"] >>

(***************************************************************************)
(* C5: for every parseable recipe document (a mapping), schema-valid or    *)
(* not, the semantic checks run in addition to schema validation: the      *)
(* returned list is the schema errors followed by the semantic errors, no  *)
(* schema error is lost and no semantic check is skipped.                  *)
(***************************************************************************)
C5_SchemaThenSemantic ==
    \A d \in {source.parsed} : Evaluated(OpRecipeFile, d) /\ IsMap(d) =>
        /\ ~ret.out.raised
        /\ ReportsInOrder(ret.out.errors, RecipeViolations(d))
        /\ \A i \in DOMAIN ret.out.errors : i > Len(RecipeViolations(d)) =>
              IsDuplicateError(ret.out.errors[i]) \/ IsStageError(ret.out.errors[i])

(***************************************************************************)
(* C6: validators never raise on parseable input: every validate_data and  *)
(* validate_file call of both validators returns a verdict, and the        *)
(* problems detected before an internal failure (the schema violations)    *)
(* are entries of the returned list.                                       *)
(***************************************************************************)
C6_NeverRaises ==
    /\ ret.op # "none" => ~ret.out.raised
    /\ \A d \in {data, source.parsed} :
          (Evaluated(OpAgentData, d) \/ Evaluated(OpAgentFile, d))
              => ReportsInOrder(ret.out.errors, AgentViolations(d))
    /\ \A d \in {data, source.parsed} :
          (Evaluated(OpRecipeData, d) \/ Evaluated(OpRecipeFile, d))
              => ReportsInOrder(ret.out.errors, RecipeViolations(d))

(***************************************************************************)
(* C7: RecipeValidator.validate_data(data) exists and returns a verdict:   *)
(* (True, []) for a valid recipe, (False, errors) with an error mentioning *)
(* 'graph' for a recipe without a graph, and the verdict validate_file     *)
(* gives on a file holding the same data.                                  *)
(***************************************************************************)
C7_RecipeValidateData ==
    ret.op = OpRecipeData =>
        /\ ~ret.out.raised
        /\ ValidRecipe(data) => ret.out = Verdict(TRUE, <<>>)
        /\ IsMap(data) /\ "graph" \notin DOMAIN data.m =>
              /\ ~ret.out.is_valid
              /\ \E i \in DOMAIN ret.out.errors : ContainsWord(ret.out.errors[i], "graph")
        /\ \E out \in RecipeValidator_validate_file(recipe_validator, Holds(YamlPath, data)) :
              out.is_valid = ret.out.is_valid

(***************************************************************************)
(* C8: the empty document (a source that parses to null) gets, from each   *)
(* validator, a failed verdict with exactly one error entry, the schema's  *)
(* complaint about the missing content, and no exception escapes.          *)
(***************************************************************************)
C8_EmptyDocument ==
    /\ Evaluated(OpAgentData, NullV) \/ Evaluated(OpAgentFile, NullV) =>
          /\ ~ret.out.raised /\ ~ret.out.is_valid /\ Len(ret.out.errors) = 1
          /\ ReportsInOrder(ret.out.errors, AgentViolations(NullV))
    /\ Evaluated(OpRecipeFile, NullV) =>
          /\ ~ret.out.raised /\ ~ret.out.is_valid /\ Len(ret.out.errors) = 1
          /\ ReportsInOrder(ret.out.errors, RecipeViolations(NullV))

(***************************************************************************)
(* C9: validate_file tells the load outcomes apart: a missing source gives *)
(* (False, [one 'File not found' entry naming the path]), a syntax error   *)
(* gives (False, [one YAML parsing error entry]), and a well-formed source *)
(* (the empty document included) is evaluated and reports schema and       *)
(* semantic errors only.                                                   *)
(***************************************************************************)
IsNotFound(entry) == entry[1] = "File not found: "
IsYamlError(entry) == entry[1] = "YAML parsing error: "

C9_LoadOutcomes ==
    ret.op \in {OpAgentFile, OpRecipeFile} =>
        /\ ~ret.out.raised
        /\ source.kind = "missing" =>
              /\ ~ret.out.is_valid /\ Len(ret.out.errors) = 1
              /\ IsNotFound(ret.out.errors[1])
              /\ Occurrences(ret.out.errors[1], source.path) = 1
        /\ source.kind = "malformed" =>
              /\ ~ret.out.is_valid /\ Len(ret.out.errors) = 1
              /\ IsYamlError(ret.out.errors[1])
        /\ source.kind = "yaml" =>
              \A i \in DOMAIN ret.out.errors :
                  /\ ~IsNotFound(ret.out.errors[i])
                  /\ ~IsYamlError(ret.out.errors[i])
                  /\ ~IsInternalError(ret.out.errors[i])

(***************************************************************************)
(* C10: each schema violation is rendered as the dot-joined field path,    *)
(* ': ' and the message ("model.provider: <message>"), list indices being  *)
(* joined with dots like keys; a violation at the document root is         *)
(* rendered as the message alone.                                          *)
(***************************************************************************)
RECURSIVE DottedPath(_)
DottedPath(path) ==
    LET first == IF path[1].k = "key" THEN path[1].name ELSE Digits[path[1].i + 1]
    IN  IF Len(path) = 1 THEN <<first>>
        ELSE <<first, ".">> \o DottedPath(Tail(path))

PathColonMessage(violation) ==
    IF violation.absolute_path = <<>> THEN violation.message
    ELSE DottedPath(violation.absolute_path) \o <<": ">> \o violation.message

FieldPathMessage(violation) ==
    IF violation.absolute_path = <<>> THEN violation.message
    ELSE <<"Field '">> \o DottedPath(violation.absolute_path) \o <<"': ">>
         \o violation.message

\* the list returned is the one the schema errors were collected in
Collected(errors, found) ==
    /\ Len(errors) >= Len(found)
    /\ \A i \in DOMAIN errors : ~IsInternalError(errors[i])

C10_PathColonMessage ==
    /\ \A d \in {data, source.parsed} :
          (Evaluated(OpAgentData, d) \/ Evaluated(OpAgentFile, d)) =>
              \A i \in DOMAIN AgentViolations(d) :
                  ret.out.errors[i] = PathColonMessage(AgentViolations(d)[i])
    /\ \A d \in {source.parsed} :
          Evaluated(OpRecipeFile, d) /\ Collected(ret.out.errors, RecipeViolations(d)) =>
              \A i \in DOMAIN RecipeViolations(d) :
                  ret.out.errors[i] = PathColonMessage(RecipeViolations(d)[i])

\* C10 as amended: the entry reads "Field '<dot-joined path>': <message>",
\* list indices joined with dots like keys, and the message alone for a
\* violation at the document root
C10_FieldPathMessage ==
    /\ \A d \in {data, source.parsed} :
          (Evaluated(OpAgentData, d) \/ Evaluated(OpAgentFile, d)) =>
              \A i \in DOMAIN AgentViolations(d) :
                  ret.out.errors[i] = FieldPathMessage(AgentViolations(d)[i])
    /\ \A d \in {source.parsed} :
          Evaluated(OpRecipeFile, d) /\ Collected(ret.out.errors, RecipeViolations(d)) =>
              \A i \in DOMAIN RecipeViolations(d) :
                  ret.out.errors[i] = FieldPathMessage(RecipeViolations(d)[i])

\* a list reporting a violation at the root and one under graph -> 0 -> stage
C10_Witness ==
    \E d \in {source.parsed} :
        /\ Evaluated(OpRecipeFile, d) /\ Collected(ret.out.errors, RecipeViolations(d))
        /\ \E i, j \in DOMAIN RecipeViolations(d) :
              /\ RecipeViolations(d)[i].absolute_path = <<>>
              /\ RecipeViolations(d)[j].absolute_path = <<Key("graph"), Idx(0), Key("stage")>>
              /\ ret.out.errors[j][1] = "Field '"

(***************************************************************************)
(* C11: for every specification missing a field the schema requires, the   *)
(* verdict is (False, errors) and errors holds, for each missing required  *)
(* field, one entry that names the field and contains the word 'required'. *)
(***************************************************************************)
\* the violations of the keyword `required` among those found
MissingRequired(found) == SelectSeq(found, LAMBDA v : v.validator = "required")
\* the field a `required` violation is about
MissingField(violation) == violation.message[2]

IsRequiredError(entry) == ContainsWord(entry, "required")

\* the entries about a required field are, one each and in order, about the
\* missing fields
ReportsMissingFields(out, found) ==
    LET missing == MissingRequired(found)
        entries == IF out.raised THEN <<>> ELSE SelectSeq(out.errors, IsRequiredError)
    IN  /\ ~out.raised /\ ~out.is_valid
        /\ Len(entries) = Len(missing)
        /\ \A i \in DOMAIN missing :
              /\ Occurrences(entries[i], MissingField(missing[i])) >= 1
              /\ EntryReports(entries[i], missing[i])

C11_RequiredReported ==
    /\ \A d \in {data, source.parsed} :
          (Evaluated(OpAgentData, d) \/ Evaluated(OpAgentFile, d))
          /\ MissingRequired(AgentViolations(d)) # <<>>
              => ReportsMissingFields(ret.out, AgentViolations(d))
    /\ \A d \in {data, source.parsed} :
          (Evaluated(OpRecipeData, d) \/ Evaluated(OpRecipeFile, d))
          /\ MissingRequired(RecipeViolations(d)) # <<>>
              => ReportsMissingFields(ret.out, RecipeViolations(d))

\* C11 holds of AgentValidator, whose two entry points only collect the
\* schema violations
C11_AgentRequired ==
    \A d \in {data, source.parsed} :
        (Evaluated(OpAgentData, d) \/ Evaluated(OpAgentFile, d))
        /\ MissingRequired(AgentViolations(d)) # <<>>
            => ReportsMissingFields(ret.out, AgentViolations(d))

\* C11 holds of RecipeValidator.validate_file whenever the list returned is
\* the one the schema errors were collected in
C11_RecipeRequired ==
    \A d \in {source.parsed} :
        Evaluated(OpRecipeFile, d) /\ MissingRequired(RecipeViolations(d)) # <<>>
        /\ Collected(ret.out.errors, RecipeViolations(d))
            => ReportsMissingFields(ret.out, RecipeViolations(d))

(***************************************************************************)
(* Vocabulary of the generation properties.                                *)
(***************************************************************************)
OpRenderClaude == "AgentRenderer.render_claude_agent"
OpRenderLanggraph == "AgentRenderer.render_langgraph_agent"
OpRenderAssistant == "AgentRenderer.render_assistant_config"
OpGenerateSubagentFile == "ClaudeAdapter.generate_subagent_file"
OpGenerateAgentFile == "LangGraphAdapter.generate_agent_file"
OpRequirements == "LangGraphAdapter.generate_requirements_file"
OpApp == "LangGraphAdapter.generate_app_file"
OpMapModel == "AgentRenderer._map_model_to_openai"
OpMapTools == "AgentRenderer._map_tools_to_openai"

\* the calls that write one output file and return its path
WritingOps ==
    {OpRenderClaude, OpRenderLanggraph, OpRenderAssistant, OpGenerateSubagentFile, OpGenerateAgentFile,
     OpRequirements, OpApp}

\* the last call was op and it returned
Succeeded(op) == gen.op = op /\ ~gen.raised

\* s begins with prefix
StartsWith(s, prefix) == Len(s) >= Len(prefix) /\ SubSeq(s, 1, Len(prefix)) = prefix

\* the mapping v has the key, with this value
Has(v, key) == IsMap(v) /\ key \in DOMAIN v.m
HasValue(v, key, value) == Has(v, key) /\ v.m[key] = value

\* C12: a call that repeats the call before it, with the same specification
\* files, the same output directory and the same strategy, returns the same
\* path and leaves every file with the bytes it had: the second output
\* overwrites the first with identical content.
C12_Idempotent ==
    [][gen'.again /\ gen'.op \in WritingOps /\ ~gen.raised
          => /\ ~gen'.raised
             /\ gen'.value = gen.value
             /\ fs' = fs]_vars

C12_Witness ==
    /\ gen.again /\ gen.op \in WritingOps /\ ~gen.raised
    /\ gen.value \in DOMAIN fs.files

\* the file names the claim gives for each specification file, by target
C13_Names ==
    ("agents/engineering/test-agent.yaml" :>
        [md |-> "test-agent.md", py |-> "test_agent_agent.py",
         json |-> "test-agent_assistant.json"])
    @@ ("agents/data/sql-query-helper.yaml" :>
        [md |-> "sql-query-helper.md", py |-> "sql_query_helper_agent.py",
         json |-> "sql-query-helper_assistant.json"])
    @@ ("agents/ops/draft-agent.yaml" :>
        [md |-> "draft-agent.md", py |-> "draft_agent_agent.py",
         json |-> "draft-agent_assistant.json"])
    @@ ("agents/qa/test-agent.yaml" :>
        [md |-> "test-agent.md", py |-> "test_agent_agent.py",
         json |-> "test-agent_assistant.json"])
    @@ ("agents/_templates/agent-template.yaml" :>
        [md |-> "my-agent-id.md", py |-> "my_agent_id_agent.py",
         json |-> "my-agent-id_assistant.json"])

\* C13: a call of a per-file strategy that returns has written, inside the
\* output directory it was given, the file named <id>.md (document),
\* <id with every '-' replaced by '_'>_agent.py (program) or
\* <id>_assistant.json (configuration), the stem of the source file standing
\* for an absent id, and the path it returns is the path of that file.
C13_OutputNames ==
    \A kind \in {"md", "py", "json"} :
        LET ops == CASE kind = "md" -> {OpRenderClaude, OpGenerateSubagentFile}
                     [] kind = "py" -> {OpRenderLanggraph, OpGenerateAgentFile}
                     [] kind = "json" -> {OpRenderAssistant}
        IN  gen.op \in ops /\ ~gen.raised
                => /\ gen.value = gen.arg[2] \o "/" \o C13_Names[gen.arg[1]][kind]
                   /\ gen.value \in DOMAIN fs.files

C13_Witness ==
    /\ Succeeded(OpGenerateAgentFile)
    /\ gen.arg[1] = "agents/data/sql-query-helper.yaml"
    /\ gen.value = "out/sql_query_helper_agent.py"
    /\ gen.value \in DOMAIN fs.files

\* the specification declares this provider
Declares(spec, provider) == Has(spec, "model") /\ HasValue(spec.m["model"], "provider", StrV(provider))
\* the specification declares no provider
NoProvider(spec) == ~(Has(spec, "model") /\ Has(spec.m["model"], "provider"))

\* the manifest m is strictly ascending and has each base package once
BaseManifest(m) ==
    /\ \A i, j \in DOMAIN m : i < j => StrLess(m[i], m[j])
    /\ \A base \in {"langgraph>=0.0.60", "langchain>=0.1.0", "langchain-core>=0.1.0"} :
          Cardinality({i \in DOMAIN m : m[i] = base}) = 1

HasLine(m, line) == \E i \in DOMAIN m : m[i] = line

\* C14 as stated: the manifest generate_requirements_file writes is strictly
\* ascending, has the three base packages once each, has the
\* langchain-anthropic entry exactly when some specification declares
\* provider anthropic and the langchain-openai entry exactly when some
\* specification declares provider openai.
C14_DeclaredProviders ==
    Succeeded(OpRequirements) =>
        LET m == fs.files[gen.value]
        IN  /\ BaseManifest(m)
            /\ HasLine(m, "langchain-anthropic>=0.1.0")
                  <=> \E i \in DOMAIN agents_dir : Declares(agents_dir[i].parsed, "anthropic")
            /\ HasLine(m, "langchain-openai>=0.1.0")
                  <=> \E i \in DOMAIN agents_dir : Declares(agents_dir[i].parsed, "openai")

\* C14, amended: the manifest is strictly ascending, has the three base
\* packages once each, has the langchain-anthropic entry exactly when some
\* specification declares provider anthropic or declares no provider, and
\* the langchain-openai entry exactly when some specification declares
\* provider openai.
C14_Manifest ==
    Succeeded(OpRequirements) =>
        LET m == fs.files[gen.value]
        IN  /\ BaseManifest(m)
            /\ HasLine(m, "langchain-anthropic>=0.1.0")
                  <=> \E i \in DOMAIN agents_dir :
                         \/ Declares(agents_dir[i].parsed, "anthropic")
                         \/ NoProvider(agents_dir[i].parsed)
            /\ HasLine(m, "langchain-openai>=0.1.0")
                  <=> \E i \in DOMAIN agents_dir : Declares(agents_dir[i].parsed, "openai")

C14_Witness ==
    /\ Succeeded(OpRequirements)
    /\ \A i \in DOMAIN agents_dir : ~Declares(agents_dir[i].parsed, "anthropic")
    /\ fs.files[gen.value] =
          << "langchain-anthropic>=0.1.0", "langchain-core>=0.1.0",
             "langchain-openai>=0.1.0", "langchain>=0.1.0", "langgraph>=0.0.60" >>

\* the identifier generate_app_file registers a specification under, and the
\* identifiers with '-' replaced by '_'
AppId(spec) == IF Has(spec, "id") THEN spec.m["id"].s ELSE "unknown"
C15_Names ==
    ("test-agent" :> "test_agent") @@ ("sql-query-helper" :> "sql_query_helper")
    @@ ("unknown" :> "unknown") @@ ("my-agent-id" :> "my_agent_id")

\* C15: the aggregator generate_app_file writes has, for the specifications
\* of the collection in collection order, one import of create_<id_>_agent
\* from <id_>_agent and one assignment agents["<id>"] = create_<id_>_agent(),
\* and no other import of a factory or assignment to the registry; run, it
\* answers an identifier that is no key of the registry with 404 'not found'
\* and only the identifiers it has an assignment for otherwise.
C15_Aggregator ==
    /\ Succeeded(OpApp) =>
          LET lines == fs.files[gen.value]
              IsImport(l) == Contains(l, " import create_")
              IsAssignment(l) == StartsWith(l, "    agents[")
              name(i) == C15_Names[AppId(agents_dir[i].parsed)]
          IN  /\ SelectSeq(lines, IsImport) =
                    [i \in DOMAIN agents_dir |->
                        "from " \o name(i) \o "_agent import create_" \o name(i) \o "_agent"]
              /\ SelectSeq(lines, IsAssignment) =
                    [i \in DOMAIN agents_dir |->
                        "    agents[\"" \o AppId(agents_dir[i].parsed) \o "\"] = create_"
                        \o name(i) \o "_agent()"]
    /\ Succeeded("invoke_agent") =>
          IF /\ \E i \in DOMAIN agents_dir : AppId(agents_dir[i].parsed) = gen.arg[2]
             /\ \E l \in DOMAIN fs.files[Under(gen.arg[1], "app.py")] :
                   StartsWith(fs.files[Under(gen.arg[1], "app.py")][l],
                              "    agents[\"" \o gen.arg[2] \o "\"] = ")
          THEN gen.value.status_code = 200
          ELSE /\ gen.value.status_code = 404
               /\ gen.value.detail = "Agent " \o gen.arg[2] \o " not found"

C15_Witness ==
    /\ Succeeded("invoke_agent")
    /\ gen.arg[2] = "nobody"
    /\ gen.value.status_code = 404
    /\ "test-agent" \in {AppId(agents_dir[i].parsed) : i \in DOMAIN agents_dir}

\* the tools of a list that are of type builtin, and the others
IsBuiltin(tool) == HasValue(tool, "type", StrV("builtin"))
IsFunction(descriptor) == descriptor.type = "function"

\* C16 as stated: every tool whose type is not 'builtin' is mapped to one
\* function descriptor with the tool's id, its description or the empty
\* text, and the empty object schema, in the order of the tools.
C16_EveryOtherToolMapped ==
    Succeeded(OpMapTools) =>
        LET IsOther(tool) == ~IsBuiltin(tool)
            others == SelectSeq(gen.arg[1].items, IsOther)
        IN  SelectSeq(gen.value, IsFunction) =
                [i \in DOMAIN others |->
                    FunctionTool(others[i].m["id"],
                                 IF Has(others[i], "description")
                                 THEN others[i].m["description"] ELSE StrV(""))]

\* what holds in place of C16: the function descriptors are those of the
\* tools of type 'http'
C16_HttpToolsMapped ==
    Succeeded(OpMapTools) =>
        LET IsHttp(tool) == HasValue(tool, "type", StrV("http"))
            https == SelectSeq(gen.arg[1].items, IsHttp)
        IN  SelectSeq(gen.value, IsFunction) =
                [i \in DOMAIN https |->
                    FunctionTool(https[i].m["id"],
                                 IF Has(https[i], "description")
                                 THEN https[i].m["description"] ELSE StrV(""))]

\* C17: _map_tools_to_openai raises nothing on a list of tool descriptors,
\* and the capability tags of its output are, in order, {type: <id>} for
\* the builtin tools whose id is code_interpreter or file_search: a builtin
\* tool with another id adds nothing.
C17_AllowList ==
    gen.op = OpMapTools =>
        /\ ~gen.raised
        /\ LET IsAllowed(tool) ==
                   /\ IsBuiltin(tool)
                   /\ \/ HasValue(tool, "id", StrV("code_interpreter"))
                      \/ HasValue(tool, "id", StrV("file_search"))
               IsTag(descriptor) == ~IsFunction(descriptor)
               allowed == SelectSeq(gen.arg[1].items, IsAllowed)
           IN  SelectSeq(gen.value, IsTag) =
                   [i \in DOMAIN allowed |-> [type |-> allowed[i].m["id"].s]]

C17_Witness ==
    /\ Succeeded(OpMapTools)
    /\ \E i \in DOMAIN gen.arg[1].items :
          /\ IsBuiltin(gen.arg[1].items[i])
          /\ gen.arg[1].items[i].m["id"] = StrV("test_tool")
    /\ gen.value = <<>>

\* C18: _map_model_to_openai gives gpt-3.5-turbo for tier gpt-3.5, gpt-4
\* for gpt-4 and gpt-4o for gpt-4o when the provider is openai or is not
\* given, and gpt-4 for any other or absent tier and for any other
\* provider; it raises nothing.
C18_ModelName ==
    gen.op = OpMapModel =>
        /\ ~gen.raised
        /\ gen.value \in {"gpt-3.5-turbo", "gpt-4", "gpt-4o"}
        /\ LET model_config == gen.arg[1]
               openai == ~Has(model_config, "provider")
                         \/ HasValue(model_config, "provider", StrV("openai"))
           IN  gen.value =
                   IF openai /\ HasValue(model_config, "tier", StrV("gpt-3.5"))
                   THEN "gpt-3.5-turbo"
                   ELSE IF openai /\ HasValue(model_config, "tier", StrV("gpt-4o"))
                   THEN "gpt-4o"
                   ELSE "gpt-4"

C18_Witness ==
    /\ Succeeded(OpMapModel)
    /\ HasValue(gen.arg[1], "tier", StrV("gpt-4"))
    /\ HasValue(gen.arg[1], "provider", StrV("openai"))
    /\ gen.value = "gpt-4"

\* the file holds a specification: a YAML mapping
IsSpecFile(f) == f.kind = "yaml" /\ IsMap(f.parsed)
MappingAt(path) == \E f \in SpecFiles : f.path = path /\ IsSpecFile(f)
AllSpecFiles == \A i \in DOMAIN agents_dir : IsSpecFile(agents_dir[i])

\* C19: no absent optional field makes generation fail.
\* render_assistant_config returns for every file that holds a specification, and for
\* the draft without model, tools and ownership it writes model gpt-4, an
\* empty tools list and a null owner; generate_requirements_file and
\* generate_app_file fail only when the output directory does not exist,
\* and the manifest written has the base packages.
C19_AbsentFields ==
    /\ gen.op = OpRenderAssistant /\ MappingAt(gen.arg[1]) => ~gen.raised
    /\ Succeeded(OpRenderAssistant) /\ gen.arg[1] = "agents/ops/draft-agent.yaml" =>
          /\ HasLine(fs.files[gen.value], "  \"model\": \"gpt-4\",")
          /\ HasLine(fs.files[gen.value], "  \"tools\": [],")
          /\ HasLine(fs.files[gen.value], "    \"owner\": null")
    /\ gen.op \in {OpRequirements, OpApp} /\ AllSpecFiles /\ gen.raised =>
          /\ gen.exc.type = "FileNotFoundError"
          /\ gen.arg[1] \notin fs.dirs
    /\ Succeeded(OpRequirements) => BaseManifest(fs.files[gen.value])
    /\ Succeeded(OpApp) => gen.value \in DOMAIN fs.files

C19_Witness ==
    /\ Succeeded(OpRenderAssistant)
    /\ gen.arg[1] = "agents/ops/draft-agent.yaml"
    /\ HasLine(fs.files[gen.value], "  \"tools\": [],")

\* the render command was given a known target, and there are agent files
\* for it to render: specifications, none of them the boilerplate
RenderRequested(target) ==
    /\ gen.op = "render"
    /\ gen.arg[1] = target
    /\ agents_dir # <<>>
    /\ AllSpecFiles
    /\ \A i \in DOMAIN agents_dir : ~Contains(agents_dir[i].path, "_templates")
    /\ gen.arg[2] # "" => \E i \in DOMAIN agents_dir :
                             C13_Names[agents_dir[i].path].md = gen.arg[2] \o ".md"

\* the command ended with status 0 and there is a file in its output
\* directory
RenderedOutput ==
    /\ ~gen.raised
    /\ gen.value.exit_code = 0
    /\ \E p \in DOMAIN fs.files :
          StartsWith(p, (IF gen.arg[3] = "" THEN "adapters/" \o gen.arg[1] ELSE gen.arg[3])
                        \o "/")

\* C20 as stated: a render request for claude, langgraph or assistants is
\* dispatched to its strategy and ends with one or more output files.
C20_KnownTargetsRender ==
    \A target \in {"claude", "langgraph", "assistants"} :
        RenderRequested(target) => RenderedOutput

\* what holds in place of C20: the claude and langgraph targets end with
\* output, the assistants target ends with status 1 and the notice that it
\* is not implemented
C20_TwoTargetsRender ==
    /\ \A target \in {"claude", "langgraph"} : RenderRequested(target) => RenderedOutput
    /\ RenderRequested("assistants") =>
          /\ ~gen.raised
          /\ gen.value.exit_code = 1
          /\ gen.value.console = <<"OpenAI/CrewAI adapter not yet implemented">>

(***************************************************************************)
(* C21: an unknown render target is fatal and writes nothing.              *)
(***************************************************************************)
\* the targets the render command knows
KnownTargets == {"claude", "langgraph", "assistants"}

\* C21: a render request for a target that is none of the known ones ends
\* with a non-zero status and a message that names the target, and the call
\* leaves the file system as it was: no file written, no directory created.
C21_UnknownTargetFatal ==
    [][(gen'.op = "render" /\ gen'.arg[1] \notin KnownTargets) =>
          /\ ~gen'.raised
          /\ gen'.value.exit_code # 0
          /\ \E i \in DOMAIN gen'.value.console :
                gen'.value.console[i] = "Unknown target: " \o gen'.arg[1]
          /\ fs' = fs]_vars

\* the render command was given the target crewai and ended with status 1,
\* and its default output directory adapters/crewai does not exist
C21_Witness ==
    /\ gen.op = "render"
    /\ gen.arg[1] = "crewai"
    /\ gen.value.exit_code = 1
    /\ Under(ADAPTERS_DIR, "crewai") \notin fs.dirs
    /\ agents_dir # <<>>

(***************************************************************************)
(* C24: a per-file call that fails leaves no partial output.               *)
(***************************************************************************)
\* the three render functions and the two per-file adapter functions
PerFileOps ==
    {OpRenderClaude, OpRenderLanggraph, OpRenderAssistant, OpGenerateSubagentFile,
     OpGenerateAgentFile}

\* the exceptions of loading, parsing and template rendering, and those of
\* reading the loaded document before the output is named
LoadOrRenderFailures ==
    {"FileNotFoundError", "PermissionError", "YAMLError", "TemplateNotFound",
     "AttributeError", "TypeError"}

\* C24: when a call of render_claude_agent, render_langgraph_agent,
\* render_assistant_config, generate_subagent_file or generate_agent_file
\* raises, the exception is one of loading, parsing, rendering or reading
\* the specification, and the call leaves the file system as it was: no
\* output file created or changed, the output directory not created.
C24_NoPartialOutput ==
    [][(gen'.op \in PerFileOps /\ gen'.raised) =>
          /\ gen'.exc.type \in LoadOrRenderFailures
          /\ fs' = fs]_vars

\* a call failed for a template not found, with the output directory absent
C24_Witness ==
    /\ gen.op \in PerFileOps
    /\ gen.raised
    /\ gen.exc.type = "TemplateNotFound"
    /\ OutputDir \notin fs.dirs

\* a call failed on the file that is no YAML, with the output directory absent
C24_LoadFailure ==
    /\ gen.op \in PerFileOps
    /\ gen.raised
    /\ gen.exc.type = "YAMLError"
    /\ OutputDir \notin fs.dirs

(***************************************************************************)
(* C28: the aggregator and the program files of one batch.                 *)
(***************************************************************************)
OpAllLanggraph == "generate_all_langgraph_agents"
OpAllClaude == "generate_all_claude_agents"

\* the files of the listing the batch loop takes up
Scanned == SelectSeq(agents_dir, LAMBDA f : ~Contains(f.path, "_templates"))

\* the module an import line of app.py names
ImportedModule(line) == SubSeq(line, 6, IndexOf(line, " import ") - 1)

\* the lines of app.py that import an agent factory
FactoryImports(dir) ==
    SelectSeq(fs.files[Under(dir, "app.py")], LAMBDA l : Contains(l, " import create_"))

\* C28: when generate_all_langgraph_agents returns and has written the
\* aggregator, every module the aggregator imports is the stem of a program
\* file in the list the call returns.
C28_ImportsAreGenerated ==
    (/\ Succeeded(OpAllLanggraph)
     /\ \E i \in DOMAIN Scanned : Scanned[i].kind = "yaml")
        => \A l \in DOMAIN FactoryImports(gen.arg[1]) :
              \E g \in DOMAIN gen.value :
                 gen.value[g] = Under(gen.arg[1],
                                      ImportedModule(FactoryImports(gen.arg[1])[l]) \o ".py")

(***************************************************************************)
(* C29: batch generation isolates the failure of one source file.          *)
(***************************************************************************)
\* the files of the listing whose per-file generation succeeds, in scan
\* order: specifications, under no _templates directory
Generated(suffix) ==
    LET ok == SelectSeq(Scanned, IsSpecFile)
    IN  [i \in DOMAIN ok |-> Under(gen.arg[1], C13_Names[ok[i].path][suffix])]

\* C29: a batch call does not raise, whatever the files of the directory
\* are; the list it returns is the paths of the files written, in scan
\* order, one per specification that is not under a _templates directory.
C29_BatchIsolatesFailures ==
    /\ gen.op \in {OpAllClaude, OpAllLanggraph} => ~gen.raised
    /\ Succeeded(OpAllClaude) =>
          /\ gen.value = Generated("md")
          /\ \A g \in DOMAIN gen.value : gen.value[g] \in DOMAIN fs.files
    /\ Succeeded(OpAllLanggraph) =>
          /\ gen.value = Generated("py")
          /\ \A g \in DOMAIN gen.value : gen.value[g] \in DOMAIN fs.files

\* what holds of the document batch: it never raises, and returns the
\* paths written in scan order
C29_ClaudeBatch ==
    /\ gen.op = OpAllClaude => ~gen.raised
    /\ Succeeded(OpAllClaude) =>
          /\ gen.value = Generated("md")
          /\ \A g \in DOMAIN gen.value : gen.value[g] \in DOMAIN fs.files

(***************************************************************************)
(* C22: the exit status of the validate command and the errors it prints.  *)
(***************************************************************************)
OpValidate == "validate"

\* the errors the validators returned for the documents examined, in order
RECURSIVE ErrorsOf(_)
ErrorsOf(validated) ==
    IF validated = <<>> THEN <<>>
    ELSE (IF Head(validated).is_valid THEN <<>> ELSE Head(validated).errors)
         \o ErrorsOf(Tail(validated))

\* the error texts on the console: the bulleted lines of --verbose, and the
\* lines after 'Errors found:', which carry the name of the file
PrintedErrors(console) ==
    LET IsBullet(l) == l[1] = "   <bullet> "
        IsNamed(l) == l[1] = "<cross> " /\ Len(l) >= 5 /\ l[5] = "): "
        bullets == SelectSeq(console, IsBullet)
        named == SelectSeq(console, IsNamed)
    IN  [i \in DOMAIN bullets |-> Tail(bullets[i])]
        \o [i \in DOMAIN named |-> SubSeq(named[i], 6, Len(named[i]))]

\* every failed document has its line '<cross> name (type' on the console
FailedNamed(out) ==
    \A i \in DOMAIN out.validated :
        ~out.validated[i].is_valid =>
            \E l \in DOMAIN out.console :
                /\ out.console[l][1] = "<cross> "
                /\ out.console[l][2] = Name(out.validated[i].file)

\* C22: the command ends with a non-zero status exactly when a document it
\* examined failed validation, and every error of a failed document is on
\* the console exactly once, with the name of its file, verbose or not.
C22_ExitStatusAndErrors ==
    ret.op = OpValidate =>
        /\ ret.out.exit_code # 0 <=>
               \E i \in DOMAIN ret.out.validated : ~ret.out.validated[i].is_valid
        /\ PrintedErrors(ret.out.console) = ErrorsOf(ret.out.validated)
        /\ FailedNamed(ret.out)

\* what holds: the status is non-zero exactly when a document failed or a
\* file was skipped because its type could not be determined
C22_SkippedCounted ==
    ret.op = OpValidate =>
        /\ ret.out.exit_code # 0 <=>
               \/ \E i \in DOMAIN ret.out.validated : ~ret.out.validated[i].is_valid
               \/ \E l \in DOMAIN ret.out.console :
                     ret.out.console[l][1] = "Could not determine type for "
        /\ PrintedErrors(ret.out.console) = ErrorsOf(ret.out.validated)
        /\ FailedNamed(ret.out)

(***************************************************************************)
(* C27: the validator the validate command applies to a recipe.            *)
(***************************************************************************)
\* the file lies in a directory named dir
InDirectory(path, dir) ==
    StartsWith(path, dir \o "/") \/ Contains(path, "/" \o dir \o "/")

\* C27: every document examined that has a stage graph or lies in a
\* recipes directory was given to the recipe validator.
C27_RecipesByRecipeValidator ==
    ret.op = OpValidate =>
        \A i \in DOMAIN ret.out.validated :
            (\/ InDirectory(ret.out.validated[i].file, "recipes")
             \/ (source.kind = "yaml" /\ Has(source.parsed, "graph")))
                => ret.out.validated[i].file_type = "recipe"

\* what holds: the agent validator is applied to every file whose path
\* contains 'agents' anywhere, the recipe validator to the other files
\* whose path contains 'recipes' or whose document has the key graph
C27_ChosenByPathText ==
    ret.op = OpValidate =>
        \A i \in DOMAIN ret.out.validated :
            ret.out.validated[i].file_type =
                IF Contains(ret.out.validated[i].file, "agents") THEN "agent"
                ELSE IF Contains(ret.out.validated[i].file, "recipes") THEN "recipe"
                ELSE IF Has(source.parsed, "graph") THEN "recipe"
                ELSE "agent"

(***************************************************************************)
(* C23: the semantic rules are checked independently, in a fixed order.    *)
(***************************************************************************)
\* the entries of the list that the semantic rules produced
SemanticErrorsOf(errors) ==
    SelectSeq(errors, LAMBDA entry : IsDuplicateError(entry) \/ IsStageError(entry))

\* C23: for a stage graph the semantic errors are the last entries of the
\* list; they are the duplicate-name error, when a name is repeated,
\* followed by the execution-mode error of every stage that has one, in
\* graph order: neither rule hides an error of the other, and an error of
\* one stage hides no error of a later stage.
C23_IndependentRules ==
    \A d \in {source.parsed} : CheckedGraph(d) =>
        LET errors == ret.out.errors
            semantic == SemanticErrorsOf(errors)
            n == IF DuplicatedNames(d) = {} THEN 0 ELSE 1
        IN  /\ Len(semantic) = n + Len(ExpectedStageErrors(d, 1))
            /\ n = 1 => IsDuplicateError(semantic[1]) /\ ~IsStageError(semantic[1])
            /\ StageErrorsOf(SubSeq(semantic, n + 1, Len(semantic)))
                  = ExpectedStageErrors(d, 1)
            /\ SubSeq(errors, Len(errors) - Len(semantic) + 1, Len(errors)) = semantic

\* a graph that repeats a name and has two stages with a mode error: the
\* list ends with the three entries
C23_Witness ==
    \E d \in {source.parsed} :
        /\ CheckedGraph(d)
        /\ DuplicatedNames(d) # {}
        /\ Len(ExpectedStageErrors(d, 1)) >= 2
        /\ Len(SemanticErrorsOf(ret.out.errors)) >= 3

(***************************************************************************)
(* C25: the validators hold no state across calls.                         *)
(***************************************************************************)
\* AgentValidator(schema_path) and RecipeValidator(schema_path), just made
FreshAgentValidator ==
    [schema_path |-> "schemas/agent-spec-v1.json", schema |-> AgentSchema]
FreshRecipeValidator ==
    [schema_path |-> "schemas/recipe-spec-v1.json", schema |-> RecipeSchema]

\* what a validator just made answers to the call op on d and src
FreshOutcomes(op, d, src) ==
    CASE op = OpAgentData -> {AgentValidator_validate_data(FreshAgentValidator, d)}
      [] op = OpAgentFile -> {AgentValidator_validate_file(FreshAgentValidator, src)}
      [] op = OpRecipeData -> {RecipeValidator_validate_data(FreshRecipeValidator, d)}
      [] op = OpRecipeFile -> RecipeValidator_validate_file(FreshRecipeValidator, src)

\* C25: a validate call leaves the schema of both validators and the
\* document it was given as they were, and, whatever calls came before, its
\* outcome is one a validator just constructed has for the document.
C25_NoStateAcrossCalls ==
    [][/\ agent_validator' = agent_validator
       /\ recipe_validator' = recipe_validator
       /\ data' = data
       /\ source' = source
       /\ ret'.out \in FreshOutcomes(ret'.op, data, source)]_vars

\* a recipe without graph was validated from its file, the validators are
\* as constructed and the document still has no graph
C25_Witness ==
    /\ ret.op = OpRecipeFile
    /\ source.kind = "yaml" /\ IsMap(source.parsed) /\ ~Has(source.parsed, "graph")
    /\ ret.out \in FreshOutcomes(OpRecipeFile, data, source)
    /\ recipe_validator = FreshRecipeValidator

(***************************************************************************)
(* C26: the verdict and the error list agree.                              *)
(***************************************************************************)
\* C26: whenever validate_data or validate_file of a validator returns, on
\* the normal path or from a handler, is_valid is True exactly when the
\* list is empty; a False verdict has one entry or more.
C26_VerdictConsistent ==
    (ret.op \in {OpAgentData, OpAgentFile, OpRecipeData, OpRecipeFile} /\ ~ret.out.raised)
        => /\ ret.out.is_valid <=> ret.out.errors = <<>>
           /\ ~ret.out.is_valid => Len(ret.out.errors) >= 1

\* validate_file returned from the handler for a file that is not there
C26_Witness ==
    /\ ret.op \in {OpAgentFile, OpRecipeFile}
    /\ source.kind = "missing"
    /\ ~ret.out.raised /\ ~ret.out.is_valid
    /\ Len(ret.out.errors) = 1

====
